---- MODULE Spec2Model ----
(***************************************************************************)
(* RoundRobinScraper.scrape, parallel mode                                 *)
(* (src/code/src/scraper/unified/linkedin/staggered_queue_scraper.py).     *)
(*                                                                         *)
(* The scheduler coroutine fills an asyncio.Queue with one JobTask per     *)
(* URL, num_slots slot_worker coroutines pull from it, and the scheduler   *)
(* waits for the queue to drain with a progress-based watchdog, sends one  *)
(* poison pill (None) per worker, joins the workers and prints the         *)
(* summary.                                                                *)
(*                                                                         *)
(* Granularity.  The code runs on one asyncio event loop, so control       *)
(* changes hands only at an await that really suspends.  The asyncio locks *)
(* of the class (stats_lock, results_lock, the TokenBucket lock) are never *)
(* held across an await, hence never contended, and a put on the unbounded *)
(* queue never suspends.  Each action below is therefore the code between  *)
(* two suspension points:                                                  *)
(*   - a worker suspends in job_queue.get() and inside the processing of a *)
(*     job (pacer sleep, navigation, extraction, to_thread);               *)
(*   - the scheduler suspends in wait_for(job_queue.join()) and in         *)
(*     wait_for(gather(workers)).                                          *)
(* Spec does not follow wall-clock time: a timeout may fire whenever the    *)
(* thing waited for has not happened, and the pacing state only decides    *)
(* how long a worker sleeps before it fetches.                             *)
(*                                                                         *)
(* Pacing has specifications of its own, over a clock that counts ticks:   *)
(*   PaceSpec    the workers going through _acquire_job_start_slot and     *)
(*               _enforce_dispatch_delay to the fetch, job after job;      *)
(*   BucketSpec  one TokenBucket whose methods are called in any order;    *)
(*   BreakerSpec one CircuitBreaker (services/base/circuit_breaker.py).    *)
(* A tick is the longest single sleep of TokenBucket.acquire; tokens are   *)
(* counted in units of 1/TokenUnit token.  A sleeper resumes when its due  *)
(* time has come or later.                                                 *)
(*                                                                         *)
(* Three more specifications follow the parts that stand apart from the    *)
(* queue:                                                                  *)
(*   ClientSpec   BaseHeadlessXClient.make_request_with_retry, called by   *)
(*                several coroutines (services/base/base_client.py);       *)
(*   ThrottleSpec the adaptive delay of RoundRobinScraper, constructed     *)
(*                with any arguments, under any sequence of outcomes;      *)
(*   ClassifySpec one pass of _process_job_in_slot over any page, up to    *)
(*                the value it returns.                                    *)
(*                                                                         *)
(* The other schedulers and limiters of the package:                       *)
(*   QueueSpec    QueueBasedScraper.scrape with its workers                *)
(*                (linkedin/queue_based_scraper.py); QueueFairSpec is the  *)
(*                same with every coroutine running on;                    *)
(*   SlotSpec     slot_worker statement by statement: the locks around the *)
(*                counters, the pause after a 429, put before task_done;   *)
(*   LimiterSpec  one AdaptiveLinkedInRateLimiter called by several        *)
(*                coroutines (scalable/adaptive_rate_limiter.py);          *)
(*   SeqSpec      the loop of scrape_job_details_sequential over a limiter *)
(*                of its own (linkedin/sequential_detail_scraper.py).      *)
(***************************************************************************)
EXTENDS Integers, Sequences, FiniteSets, TLC

\* ------------------------------------------------- inputs and bounds
\* The input of scrape: one JobTask per URL, numbered in input order (the
\* callers pass rows of job_urls, whose job_id is a primary key, so the
\* job_ids of one run are pairwise distinct), and the worker slots.
Tasks == {1, 2}
Slots == {0, 1}
NumTasks == Cardinality(Tasks)   \* len(tasks)
num_slots == Cardinality(Slots)  \* self.num_slots

\* Configuration, scaled down (the source values are in the comments).
max_retries == 2                 \* RoundRobinScraper(max_retries=3)
max_total_429_retries == 2       \* self.max_total_429_retries = 50
max_no_progress == 2             \* max_no_progress = 12
MAX_CONSECUTIVE_TIMEOUTS == 1    \* MAX_CONSECUTIVE_TIMEOUTS = 5

Pill == 0                        \* the None item of job_queue

\* How one attempt at a URL can end inside _process_with_rate_limit.
\*   "expired"          an expired-job phrase or a 404 title in the page
\*   "redirect"         the final URL is /feed or /login (line 497)
\*   "non_english"      the description is not in English (line 856)
\*   "nav_timeout"      page.goto did not answer within its 10 s (line 462)
\*   "timeout"          the hard timeout fired in a pacing wait
\*   "cancelled"        the hard timeout fired inside the try block
\*   "timeout_after_store"  the same, after store_details was called
\*   "timeout_in_fetch" the hard timeout fired during navigation or
\*                      extraction, whose handlers turn the CancelledError
\*                      into an ExpiredJobError (lines 469, 541)
Outcomes == {"success", "storage_failed", "rate_limit", "server_error",
             "http_404", "expired", "authwall", "validation_failed",
             "error", "timeout", "timeout_after_store", "cancelled",
             "redirect", "non_english", "nav_timeout", "timeout_in_fetch"}

\* The attempt was cut short by wait_for(..., HARD_TIMEOUT) of slot_worker.
HardTimeoutOutcomes ==
    {"timeout", "cancelled", "timeout_after_store", "timeout_in_fetch"}

VARIABLES
    job_queue,            \* asyncio.Queue contents, head first
    unfinished,           \* job_queue._unfinished_tasks (put: +1, task_done: -1)
    retry_count,          \* JobTask.retry_count, per task
    wpc,                  \* per slot_worker: "get", "busy", "exited", "cancelled"
    wtask,                \* per slot_worker: the task it holds (Pill: none)
    consecutive_timeouts, \* per slot_worker
    cancel_req,           \* slot_workers with an undelivered Task.cancel()
    total_processed, total_success, total_expired, total_failed,
    total_retried, total_429_retries,
    main_pc,              \* scrape: "wait", "gather", "cancelling", "done"
    last_processed, no_progress_count,
    deadlock_warning,     \* emit_progress("deadlock_warning") has happened
    pills_sent,           \* number of None items scrape has put
    fate,                 \* per task: "pending", "finished" (terminal outcome),
                          \*   "gave_up" (429/5xx with no retry left)
    dispatched,           \* per task: number of times a worker dequeued it
    persisted,            \* per task: number of db_ops.store_details calls
    deleted,              \* per task: number of db_ops.delete_urls calls
    tally,                \* per task: its increments of total_success,
                          \*   total_expired and total_failed
    only_429_first        \* every attempt so far answered 429 or success when
                          \*   it was a first attempt, success when a retry

workerVars == <<wpc, wtask, consecutive_timeouts>>
queueVars == <<job_queue, unfinished>>
statVars == <<total_processed, total_success, total_expired, total_failed,
              total_retried, total_429_retries>>
mainVars == <<main_pc, last_processed, no_progress_count, deadlock_warning,
              pills_sent>>
logVars == <<fate, dispatched, persisted, deleted, tally, only_429_first>>
scrapeVars == <<queueVars, retry_count, workerVars, cancel_req, statVars,
                mainVars, logVars>>

\* The pacing state of the scraper: the clock, the global job start
\* coordinator and the TokenBucket, with the position of each worker in
\* _process_with_rate_limit.
VARIABLES
    now,                  \* time.time(), in ticks
    job_start_lock,       \* owner of self.job_start_lock, or NoOwner
    last_job_start_time,  \* self.last_job_start_time
    bucket_lock,          \* owner of TokenBucket._lock, or NoOwner
    tokens,               \* TokenBucket.tokens, in units of 1/TokenUnit token
    last_refill,          \* TokenBucket.last_refill
    tokens_per_second,    \* TokenBucket.tokens_per_second, in units per tick
    ppc,                  \* per worker: "idle", "pacer_sleep", "paced",
                          \*   "acquire", "bucket_sleep", "ready", "fetching"
    wake,                 \* per worker: when its current sleep is due
    start_time,           \* per worker: start_time of its acquire call
    acquired,             \* per worker: what its last acquire call returned
    last_leave,           \* when a worker last left _acquire_job_start_slot
    leaves,               \* how many times a worker has left it
    granted,              \* acquire calls that returned True
    only_acquires         \* nothing but acquire has been called on the bucket

pacerVars == <<job_start_lock, last_job_start_time, last_leave, leaves>>
bucketVars == <<bucket_lock, tokens, last_refill, tokens_per_second, granted,
                only_acquires>>
callerVars == <<ppc, wake, start_time, acquired>>
paceVars == <<now, pacerVars, bucketVars, callerVars>>

\* The CircuitBreaker of the HeadlessX clients.
VARIABLES
    state,                \* CircuitBreaker.state
    failure_count,        \* CircuitBreaker.failure_count
    success_count,        \* CircuitBreaker.success_count
    last_failure_time,    \* CircuitBreaker.last_failure_time
    failure_run,          \* record_failure calls, and nothing else, made since
                          \*   the breaker was CLOSED with failure_count 0
                          \*   (-1: another call came in between)
    recent,               \* the last failure_threshold outcomes recorded by
                          \*   record_success / record_failure, oldest first
    raised,               \* the last check_state call raised CircuitOpenError
    probes                \* record_success calls made in HALF_OPEN since the
                          \*   breaker last became HALF_OPEN

breakerVars == <<state, failure_count, success_count, last_failure_time,
                 failure_run, recent, raised, probes>>

\* BaseHeadlessXClient.make_request_with_retry, one position per coroutine.
VARIABLES
    cpc,                  \* per coroutine: "idle", "queued" (waiting for the
                          \*   semaphore), "request" (an HTTP attempt is in
                          \*   flight), "backoff" (sleep_with_backoff)
    attempt,              \* per coroutine: the loop variable attempt
    permits,              \* self.semaphore._value
    calls,                \* per coroutine: calls of make_request_with_retry
    checked               \* per coroutine: check_state has been called since
                          \*   the outcome of its previous attempt was recorded

clientVars == <<cpc, attempt, permits, calls, checked>>

\* Adaptive throttling of RoundRobinScraper (the delay that sets the token
\* rate).  Delays are in hundredths of a second.
VARIABLES
    self_num_slots,       \* self.num_slots of the constructed scraper
    delay_between_jobs,   \* self.delay_between_jobs
    current_delay,        \* self.current_delay
    consecutive_success_count, \* self.consecutive_success_count
    consecutive_429_count,     \* self.consecutive_429_count
    last_outcome,         \* the outcome handled last ("none" before the first)
    streak                \* success outcomes handled since the last outcome
                          \*   that was not a success, counted modulo the
                          \*   threshold of the throttle

throttleVars == <<self_num_slots, delay_between_jobs, current_delay,
                  consecutive_success_count, consecutive_429_count,
                  last_outcome, streak>>

\* One pass of _process_job_in_slot over one page: what the page is
\* classified as.
VARIABLES
    page,                 \* what the browser would show for the task: the
                          \*   task URL, the fault or response of goto, the
                          \*   final URL, title, body, fields and fate in
                          \*   the validator and the store
    jpc,                  \* "start", "loaded" (goto is back and no rule has
                          \*   fired), "extracted" (_extract_job_data is
                          \*   past line 909), "done"
    result,               \* "none", or the value returned: "success" for
                          \*   (True, None), else the error_type
    decided_by,           \* the step that set result ("none" before)
    tried                 \* the description and the company have been
                          \*   queried (lines 844 and 863 were run)

pageVars == <<page, jpc, result, decided_by, tried>>

\* QueueBasedScraper (linkedin/queue_based_scraper.py): one call of scrape.
\* A task is written as its job_id (job_id = url.split("/")[-1], so
\* seen_urls and seen_job_ids hold the same tasks and are one set here).
VARIABLES
    urls,                 \* the argument of scrape, as job ids
    qb_pc,                \* scrape: "populate", "launch", "join", "gather",
                          \*   "done"
    qb_queue,             \* self.job_queue, oldest first
    qb_unfinished,        \* self.job_queue._unfinished_tasks
    wk_pc,                \* per worker: "new", "get", "process", "cooldown"
                          \*   (sleep after a 429), "delay" (sleep in finally),
                          \*   "exit"
    wk_task,              \* per worker: the task it holds (Pill: none)
    worker_stats,         \* per worker: its WorkerStats
    qb_totals,            \* total_processed, total_success, total_expired,
                          \*   total_failed
    seen_job_ids,         \* self.seen_job_ids (and self.seen_urls)
    stored_jobs,          \* the job ids in the jobs table of the database
    existed,              \* the ids that were stored or seen when scrape
                          \*   filled the queue
    qb_fetches,           \* per id: page.goto calls made for it
    qb_persists           \* per id: store_details calls that stored it

qbVars == <<urls, qb_pc, qb_queue, qb_unfinished, wk_pc, wk_task,
            worker_stats, qb_totals, seen_job_ids, stored_jobs, existed,
            qb_fetches, qb_persists>>

\* slot_worker of RoundRobinScraper statement by statement: the asyncio
\* locks around the counters and the global pause that follows a 429.
VARIABLES
    stats_lock,           \* owner of self.stats_lock, or NoOwner
    results_lock,         \* owner of self.results_lock, or NoOwner
    rate_limit_until,     \* self.rate_limit_until, in ticks
    spc,                  \* per slot_worker: "get", "start", "pause", "ready",
                          \*   "fetch", "handle"
    swake,                \* per slot_worker: when its rate limit wait is due
    todo,                 \* per slot_worker: the blocks it has still to run
                          \*   for the job it holds
    quiet_until           \* the latest end of a pause that a 429 has asked for

slotVars == <<stats_lock, results_lock, rate_limit_until, spc, swake, todo,
              quiet_until>>

\* _enforce_dispatch_delay of RoundRobinScraper.
VARIABLES
    set_rate_arg          \* the rate it last passed to token_bucket.set_rate,
                          \*   in 1/RateUnit token per second (NoRate: it
                          \*   has not run yet)

\* One AdaptiveLinkedInRateLimiter and the coroutines that call it; the
\* loop of scrape_job_details_sequential.
VARIABLES
    current_concurrent,   \* self.current_concurrent
    sem_value,            \* the value of the Semaphore that is self.semaphore
    waiters,              \* the callers that wait on it, first come first
    consecutive_429s,     \* self.consecutive_429s
    circuit_open,         \* self.circuit_open
    circuit_open_until,   \* self.circuit_open_until, in ticks
    recent_successes,     \* self.recent_successes, oldest first
    limiter_success_count,\* self.success_count
    limiter_error_count,  \* self.error_count
    lpc,                  \* per caller: "idle", "circuit_wait", "sem_wait",
                          \*   "jitter", "holding"
    lwake,                \* per caller: when its circuit breaker sleep is due
    requests,             \* acquire calls made
    seq_jobs,             \* scrape_job_details_sequential: how each job of
                          \*   urls ends
    seq_idx,              \* idx of the for loop
    seq_stats             \* processed, expired_count, failed_count

limiterVars == <<current_concurrent, sem_value, waiters, consecutive_429s,
                 circuit_open, circuit_open_until, recent_successes,
                 limiter_success_count, limiter_error_count, lpc, lwake,
                 requests, seq_jobs, seq_idx, seq_stats>>

\* The state of the other schedulers and limiters of the package.
restVars == <<qbVars, slotVars, set_rate_arg, limiterVars>>

\* The state outside the scraper's queue, its pacing and the breaker.
otherVars == <<clientVars, throttleVars, pageVars, restVars>>

vars == <<scrapeVars, paceVars, breakerVars, otherVars>>

\* ------------------------------------------------------------- helpers
RECURSIVE SeqOf(_, _)
SeqOf(x, n) == IF n = 0 THEN <<>> ELSE <<x>> \o SeqOf(x, n - 1)

RECURSIVE SumOver(_, _)
SumOver(f, S) ==
    IF S = {} THEN 0
    ELSE LET x == CHOOSE y \in S : TRUE IN f[x] + SumOver(f, S \ {x})

InQueue(t) == \E i \in 1..Len(job_queue) : job_queue[i] = t
InFlight(t) == \E w \in Slots : wpc[w] = "busy" /\ wtask[w] = t

\* ------------------------------------------------ _process_job_in_slot
\* store_details is reached (line 562): on the success path, when it
\* stores nothing, and when the hard timeout fires in a later to_thread.
InvokesStore(o) == o \in {"success", "storage_failed", "timeout_after_store"}

\* The ExpiredJobError handler runs: delete_urls, total_expired += 1.
RaisesExpired(o) ==
    o \in {"expired", "authwall", "redirect", "non_english", "nav_timeout",
           "timeout_in_fetch"}

\* The error_type the worker sees ("none" is Python's None on success).
ErrorType(o) ==
    CASE o = "success" -> "none"
      [] o = "storage_failed" -> "storage_failed"
      [] o = "rate_limit" -> "rate_limit"
      [] o = "server_error" -> "server_error"
      [] o = "http_404" -> "expired"
      [] o = "expired" -> "expired"
      [] o = "authwall" -> "authwall"
      [] o = "validation_failed" -> "error"
      [] o = "error" -> "error"
      [] o = "timeout" -> "timeout"
      [] o = "timeout_after_store" -> "cancelled"
      [] o = "redirect" -> "authwall"
      [] o = "non_english" -> "expired"
      [] o = "nav_timeout" -> "expired"
      [] o = "timeout_in_fetch" -> "expired"
      [] o = "cancelled" -> "cancelled"

\* ---------------------------------------------- slot_worker, "Handle result"
\* Variant: the global 429 budget is not consulted.
can_retry_per_task_only(t) == retry_count[t] < max_retries

\* "can_retry = (...)" (lines 1472-1475).
can_retry(t) ==
    /\ retry_count[t] < max_retries
    /\ total_429_retries < max_total_429_retries

\* Variant: a failed store is retried like a 5xx.
Requeues_storage_failed(e, t) ==
    \/ e = "rate_limit" /\ can_retry(t)
    \/ e \in {"server_error", "storage_failed"} /\ retry_count[t] < max_retries

\* Variant: a hard timeout is retried like a 5xx.
Requeues_timeout(e, t) ==
    \/ e = "rate_limit" /\ can_retry(t)
    \/ e \in {"server_error", "timeout"} /\ retry_count[t] < max_retries

\* Variant: the 5xx branch compares with <= instead of <.
Requeues_off_by_one(e, t) ==
    \/ e = "rate_limit" /\ can_retry(t)
    \/ e = "server_error" /\ retry_count[t] <= max_retries

\* The branches that put the task back (lines 1477-1484, 1494-1496).
Requeues(e, t) ==
    \/ e = "rate_limit" /\ can_retry(t)
    \/ e = "server_error" /\ retry_count[t] < max_retries

\* The branches that run total_failed += 1 (lines 1488-1490, 1498-1506).
MarksFailed(e, t) ==
    \/ e = "rate_limit" /\ ~can_retry(t)
    \/ e = "server_error" /\ ~(retry_count[t] < max_retries)
    \/ e = "timeout"
    \/ e \notin {"none", "rate_limit", "server_error", "authwall", "timeout",
                 "expired"}

\* ------------------------------------------- pacing: configuration
\* Time is counted in ticks; one tick is the longest single sleep of
\* TokenBucket.acquire (it sleeps min(wait_time, 0.5) and polls again).
\* Token amounts are counted in units of 1/TokenUnit token.
TokenUnit == 2                   \* units per token
min_interval_between_jobs == 2   \* self.min_interval_between_jobs, in ticks
bucket_timeout == 3              \* acquire(timeout=bucket_timeout), in ticks
MaxTime == 4                     \* ticks of the clock that are explored

\* TokenBucket(capacity=num_slots * 2, initial_tokens=num_slots).
capacity == 2 * num_slots * TokenUnit
initial_tokens == num_slots * TokenUnit

\* The refill rates that set_rate is called with, in units per tick.
Rates == {1, 2}

\* penalize(penalty_seconds), in ticks, and boost(boost_amount), in units.
PenaltySeconds == {1, 3}
BoostAmounts == {1, TokenUnit}

NoOwner == -1                    \* an asyncio.Lock that nobody holds

Min(a, b) == IF a <= b THEN a ELSE b
Max(a, b) == IF a >= b THEN a ELSE b

\* TokenBucket.__init__ and the pacing fields of RoundRobinScraper.__init__.
\* time.time() is far beyond the 0.0 that last_job_start_time starts with;
\* the clock starts min_interval_between_jobs after it, at Created.
Created == min_interval_between_jobs

PaceInit ==
    /\ now = Created
    /\ job_start_lock = NoOwner
    /\ last_job_start_time = 0
    /\ bucket_lock = NoOwner
    /\ tokens = Min(initial_tokens, capacity)
    /\ last_refill = Created
    /\ tokens_per_second = 1
    /\ ppc = [w \in Slots |-> "idle"]
    /\ wake = [w \in Slots |-> 0]
    /\ start_time = [w \in Slots |-> 0]
    /\ acquired = [w \in Slots |-> FALSE]
    /\ last_leave = 0
    /\ leaves = 0
    /\ granted = 0
    /\ only_acquires = TRUE

\* ------------------------------------------ circuit breaker: configuration
failure_threshold == 3           \* CircuitBreakerConfig.failure_threshold = 5
success_threshold == 2           \* CircuitBreakerConfig.success_threshold = 3
recovery_timeout == 1            \* CircuitBreakerConfig.recovery_timeout = 30.0
MaxFailures == 5                 \* record_failure calls that are explored

\* CircuitBreaker.__init__.
BreakerInit ==
    /\ state = "closed"
    /\ failure_count = 0
    /\ success_count = 0
    /\ last_failure_time = 0
    /\ failure_run = 0
    /\ recent = <<>>
    /\ raised = FALSE
    /\ probes = 0

\* ------------------------------------------- HTTP client: configuration
Coroutines == {0, 1}             \* concurrent callers of the client
max_attempts == 4                \* RetryConfig.max_attempts = 5
max_concurrent == 1              \* BaseHeadlessXClient(max_concurrent=5)
MaxCalls == 2                    \* calls per coroutine that are explored

\* BaseHeadlessXClient.__init__; no coroutine has called yet.
ClientInit ==
    /\ cpc = [c \in Coroutines |-> "idle"]
    /\ attempt = [c \in Coroutines |-> 0]
    /\ permits = max_concurrent
    /\ calls = [c \in Coroutines |-> 0]
    /\ checked = [c \in Coroutines |-> FALSE]

\* ---------------------------------------- adaptive throttle: configuration
NumSlotsArgs == 0..11            \* the argument num_slots, clamped to 1..10
BaseDelays == {300, 400, 500, 700}   \* the argument delay_between_jobs
delay_reduction_step == 10       \* self.delay_reduction_step = 0.1
delay_success_threshold == 3     \* self.success_threshold = 25
Max429 == 2                      \* consecutive_429_count that is explored

\* effective_delay = delay_between_jobs * slot_delay_factor, with
\* slot_delay_factor = 1.0 + 0.1 * (num_slots - 1)  (lines 212-213).
effective_delay(delay, slots) == (delay * (10 + (slots - 1))) \div 10

\* self.min_delay = max(4.0, 4.0 + 0.2 * (self.num_slots - 1))  (line 247).
min_delay == Max(400, 400 + 20 * (self_num_slots - 1))

\* RoundRobinScraper.__init__(num_slots, delay_between_jobs): the fields
\* of the adaptive throttle.
Constructed(slots_arg, delay) ==
    /\ self_num_slots = Max(1, Min(10, slots_arg))
    /\ delay_between_jobs = delay
    /\ current_delay = effective_delay(delay, self_num_slots)
    /\ consecutive_success_count = 0
    /\ consecutive_429_count = 0
    /\ last_outcome = "none"
    /\ streak = 0

\* RoundRobinScraper(): num_slots = 4, delay_between_jobs = 5.0.
ThrottleInit == Constructed(4, 500)

\* ------------------------------------------- classification: the inputs
\* A text (URL, title, body) is the set of the substrings it contains,
\* among those the code looks for; "job_id" stands for task.job_id.  URLs
\* are in lower case.
Contains(text, fragment) == fragment \in text
ContainsAny(text, fragments) == text \cap fragments # {}

JobUrl == {"/jobs/view/", "job_id"}
SigninJobUrl == {"/jobs/view/", "job_id", "signin"}
AuthwallUrl == {"authwall", "job_id"}
LoginUrl == {"/login", "login"}
FeedUrl == {"/feed"}

TaskUrls == {JobUrl, AuthwallUrl}
FinalUrls == {JobUrl, SigninJobUrl, AuthwallUrl, LoginUrl, FeedUrl}
Faults == {"none", "navigation_timeout", "content_timeout"}
NoResponse == 0                  \* page.goto returned None
Statuses == {NoResponse, 200, 404, 429, 503}
Titles == {{}, {"404"}}
Bodies ==
    {b \in SUBSET {"no longer available", "sign in", "join now", "experience"} :
        "join now" \in b => "sign in" \in b}
Descriptions == {"", "english", "non_english"}
Verdicts == {"stored", "not_stored", "invalid"}

Pages ==
    [url : TaskUrls, fault : Faults, status : Statuses,
     current_url : FinalUrls, page_title : Titles, page_text : Bodies,
     job_description : Descriptions, company_name : BOOLEAN,
     verdict : Verdicts]

\* A job page that loads with status 200 and all its fields.
PlainPage ==
    [url |-> JobUrl, fault |-> "none", status |-> 200,
     current_url |-> JobUrl, page_title |-> {}, page_text |-> {"experience"},
     job_description |-> "english", company_name |-> TRUE,
     verdict |-> "stored"]

\* _process_job_in_slot is entered with the task of this page.
Entered(p) ==
    /\ page = p
    /\ jpc = "start"
    /\ result = "none"
    /\ decided_by = "none"
    /\ tried = FALSE

PageInit == Entered(PlainPage)

\* ------------------------------------------ QueueBasedScraper: the inputs
Ids == {1, 2}                    \* job ids
UrlLists == {<<1>>, <<1, 2>>, <<1, 1>>}
Workers == {0, 1}                \* range(self.num_workers)
base_delay == 3                  \* QueueBasedScraper(base_delay=3.0)
max_delay == 6                   \* QueueBasedScraper(max_delay=30.0)
MaxCount == 2                    \* counters are exact below MaxCount and
                                 \*   stay at MaxCount from there on

\* WorkerStats(worker_id) (lines 55-64, 115).
NewStats ==
    [processed |-> 0, success |-> 0, failed |-> 0, expired |-> 0,
     rate_limited |-> 0, current_delay |-> base_delay]

\* QueueBasedScraper.__init__ (lines 77-106) on a database that holds the
\* jobs in stored; seen is what earlier calls of scrape on this object
\* have stored.
QueueCreated(url_list, stored, seen) ==
    /\ urls = url_list
    /\ qb_pc = "populate"
    /\ qb_queue = <<>>
    /\ qb_unfinished = 0
    /\ wk_pc = [w \in Workers |-> "new"]
    /\ wk_task = [w \in Workers |-> Pill]
    /\ worker_stats = [w \in Workers |-> NewStats]
    /\ qb_totals = [processed |-> 0, success |-> 0, expired |-> 0,
                    failed |-> 0]
    /\ seen_job_ids = seen
    /\ stored_jobs = stored
    /\ existed = {}
    /\ qb_fetches = [i \in Ids |-> 0]
    /\ qb_persists = [i \in Ids |-> 0]

\* A new scraper, an empty database, one URL.
QueueInit == QueueCreated(<<1>>, {}, {})

\* -------------------------------------------- slot_worker: the pause
rate_limit_backoff_base == 2     \* rate_limit_backoff_base = 60.0, in ticks
max_backoff == 3                 \* min(backoff, 300), in ticks
max_rate_limit_wait == 1         \* min(wait_time, 5.0), in ticks

\* RoundRobinScraper.__init__ (lines 229, 253, 257) and the workers before
\* their first job_queue.get().
SlotInit ==
    /\ stats_lock = NoOwner
    /\ results_lock = NoOwner
    /\ rate_limit_until = 0
    /\ spc = [w \in Slots |-> "get"]
    /\ swake = [w \in Slots |-> 0]
    /\ todo = [w \in Slots |-> <<>>]
    /\ quiet_until = 0

\* ------------------------------------- _enforce_dispatch_delay: the rate
RateUnit == 1000                 \* units per token per second
NoRate == 0                      \* set_rate has not been called

\* ------------------------------------ AdaptiveLinkedInRateLimiter: inputs
Callers == {0, 1, 2, 3}          \* coroutines that use one limiter
initial_concurrent == 3          \* initial_concurrent = 8
min_concurrent == 2              \* self.min_concurrent = 2
cooldown == 1                    \* cooldown = 60, in ticks
recent_maxlen == 3               \* deque(maxlen=100)
tuning_window == 2               \* len(self.recent_successes) >= 20
MaxRequests == 5                 \* acquire calls that are explored
MaxJobs == 3                     \* len(urls) that is explored
NoCode == 0                      \* error_code = None
ErrorCodes == {NoCode, 429, 503}

\* AdaptiveLinkedInRateLimiter.__init__ (lines 32-52), and the loop of
\* scrape_job_details_sequential before its first job (lines 113-117).
LimiterInit(jobs) ==
    /\ current_concurrent = initial_concurrent
    /\ sem_value = initial_concurrent
    /\ waiters = <<>>
    /\ consecutive_429s = 0
    /\ circuit_open = FALSE
    /\ circuit_open_until = 0
    /\ recent_successes = <<>>
    /\ limiter_success_count = 0
    /\ limiter_error_count = 0
    /\ lpc = [c \in Callers |-> "idle"]
    /\ lwake = [c \in Callers |-> 0]
    /\ requests = 0
    /\ seq_jobs = jobs
    /\ seq_idx = 1
    /\ seq_stats = [processed |-> 0, expired |-> 0, failed |-> 0]

RestInit ==
    QueueInit /\ SlotInit /\ set_rate_arg = NoRate /\ LimiterInit(<<>>)

\* ------------------------------------------------------------------ Init
\* The state when scrape first suspends in wait_for(job_queue.join()):
\* the workers are created, every task is queued in input order.
ScrapeInit ==
    /\ job_queue = [i \in 1..NumTasks |-> i]
    /\ unfinished = NumTasks
    /\ retry_count = [t \in Tasks |-> 0]
    /\ wpc = [w \in Slots |-> "get"]
    /\ wtask = [w \in Slots |-> Pill]
    /\ consecutive_timeouts = [w \in Slots |-> 0]
    /\ cancel_req = {}
    /\ total_processed = 0
    /\ total_success = 0
    /\ total_expired = 0
    /\ total_failed = 0
    /\ total_retried = 0
    /\ total_429_retries = 0
    /\ main_pc = "wait"
    /\ last_processed = 0
    /\ no_progress_count = 0
    /\ deadlock_warning = FALSE
    /\ pills_sent = 0
    /\ fate = [t \in Tasks |-> "pending"]
    /\ dispatched = [t \in Tasks |-> 0]
    /\ persisted = [t \in Tasks |-> 0]
    /\ deleted = [t \in Tasks |-> 0]
    /\ tally = [t \in Tasks |-> [success |-> 0, expired |-> 0, failed |-> 0]]
    /\ only_429_first = TRUE

Init ==
    /\ ScrapeInit
    /\ PaceInit
    /\ BreakerInit
    /\ ClientInit
    /\ ThrottleInit
    /\ PageInit
    /\ RestInit

\* ----------------------------------------------------------- slot_worker
\* The worker is alive and no cancellation is on its way to it.
Running(w) == wpc[w] \in {"get", "busy"} /\ w \notin cancel_req

\* job_queue.get() returns a JobTask: the worker starts processing it.
GetTask(w) ==
    /\ Running(w) /\ wpc[w] = "get"
    /\ job_queue # <<>> /\ Head(job_queue) # Pill
    /\ job_queue' = Tail(job_queue)
    /\ wpc' = [wpc EXCEPT ![w] = "busy"]
    /\ wtask' = [wtask EXCEPT ![w] = Head(job_queue)]
    /\ consecutive_timeouts' = [consecutive_timeouts EXCEPT ![w] = 0]
    /\ dispatched' = [dispatched EXCEPT ![Head(job_queue)] = @ + 1]
    /\ UNCHANGED <<unfinished, retry_count, cancel_req, statVars, mainVars,
                   fate, persisted, deleted, tally, only_429_first>>
    /\ UNCHANGED <<paceVars, breakerVars, otherVars>>

\* job_queue.get() returns None: task_done, break.
GetPill(w) ==
    /\ Running(w) /\ wpc[w] = "get"
    /\ job_queue # <<>> /\ Head(job_queue) = Pill
    /\ job_queue' = Tail(job_queue)
    /\ unfinished' = unfinished - 1
    /\ wpc' = [wpc EXCEPT ![w] = "exited"]
    /\ consecutive_timeouts' = [consecutive_timeouts EXCEPT ![w] = 0]
    /\ UNCHANGED <<retry_count, wtask, cancel_req, statVars, mainVars, logVars>>
    /\ UNCHANGED <<paceVars, breakerVars, otherVars>>

\* wait_for(job_queue.get(), QUEUE_GET_TIMEOUT) times out on an empty queue.
GetTimeout(w) ==
    /\ Running(w) /\ wpc[w] = "get"
    /\ job_queue = <<>>
    /\ consecutive_timeouts' = [consecutive_timeouts EXCEPT ![w] = @ + 1]
    /\ wpc' = [wpc EXCEPT ![w] =
                 IF consecutive_timeouts[w] + 1 >= MAX_CONSECUTIVE_TIMEOUTS
                 THEN "exited" ELSE "get"]
    /\ UNCHANGED <<queueVars, retry_count, wtask, cancel_req, statVars, mainVars,
                   logVars>>
    /\ UNCHANGED <<paceVars, breakerVars, otherVars>>

\* The attempt ends with outcome o; the worker handles the result, counts
\* it, and the finally block calls task_done.
Complete(w, o) ==
    /\ Running(w) /\ wpc[w] = "busy"
    /\ LET t == wtask[w]
           e == ErrorType(o)
           requeue == Requeues(e, t)
           failed == MarksFailed(e, t)
       IN
       /\ persisted' = [persisted EXCEPT ![t] = @ + (IF InvokesStore(o) THEN 1 ELSE 0)]
       /\ deleted' = [deleted EXCEPT ![t] = @ + (IF RaisesExpired(o) THEN 1 ELSE 0)]
       /\ total_success' = total_success + (IF o = "success" THEN 1 ELSE 0)
       /\ total_expired' = total_expired + (IF RaisesExpired(o) THEN 1 ELSE 0)
       /\ total_failed' = total_failed + (IF failed THEN 1 ELSE 0)
       /\ total_429_retries' = total_429_retries
                               + (IF e = "rate_limit" /\ requeue THEN 1 ELSE 0)
       /\ total_retried' = total_retried + (IF requeue THEN 1 ELSE 0)
       /\ retry_count' = [retry_count EXCEPT ![t] = @ + (IF requeue THEN 1 ELSE 0)]
       /\ job_queue' = IF requeue THEN Append(job_queue, t) ELSE job_queue
       /\ unfinished' = unfinished + (IF requeue THEN 1 ELSE 0) - 1
       /\ total_processed' = total_processed + 1
       /\ fate' = [fate EXCEPT ![t] =
                      IF requeue THEN "pending"
                      ELSE IF e \in {"rate_limit", "server_error"} THEN "gave_up"
                      ELSE "finished"]
       /\ tally' = [tally EXCEPT
                      ![t].success = @ + (IF o = "success" THEN 1 ELSE 0),
                      ![t].expired = @ + (IF RaisesExpired(o) THEN 1 ELSE 0),
                      ![t].failed = @ + (IF failed THEN 1 ELSE 0)]
       /\ only_429_first' =
              (only_429_first /\ (IF retry_count[t] = 0
                                  THEN o \in {"rate_limit", "success"}
                                  ELSE o = "success"))
    /\ wpc' = [wpc EXCEPT ![w] = "get"]
    /\ wtask' = [wtask EXCEPT ![w] = Pill]
    /\ UNCHANGED <<consecutive_timeouts, cancel_req, mainVars, dispatched>>
    /\ UNCHANGED <<paceVars, breakerVars, otherVars>>

\* Variant: the CancelledError handler breaks without calling task_done.
Cancelled_no_task_done(w) ==
    /\ w \in cancel_req
    /\ wpc[w] \in {"get", "busy"}
    /\ cancel_req' = cancel_req \ {w}
    /\ wpc' = [wpc EXCEPT ![w] = "cancelled"]
    /\ wtask' = [wtask EXCEPT ![w] = Pill]
    /\ UNCHANGED <<queueVars, retry_count, consecutive_timeouts, statVars,
                   mainVars, logVars>>
    /\ UNCHANGED <<paceVars, breakerVars, otherVars>>

\* w.cancel() reaches the worker: CancelledError at its current await; the
\* handler calls task_done for a held task and breaks, counting nothing.
Cancelled(w) ==
    /\ w \in cancel_req
    /\ wpc[w] \in {"get", "busy"}
    /\ cancel_req' = cancel_req \ {w}
    /\ unfinished' = unfinished - (IF wpc[w] = "busy" THEN 1 ELSE 0)
    /\ wpc' = [wpc EXCEPT ![w] = "cancelled"]
    /\ wtask' = [wtask EXCEPT ![w] = Pill]
    /\ UNCHANGED <<job_queue, retry_count, consecutive_timeouts, statVars,
                   mainVars, logVars>>
    /\ UNCHANGED <<paceVars, breakerVars, otherVars>>

\* w.cancel() reaches a worker inside wait_for(_process_with_rate_limit())
\* and does not come out of it: the CancelledError handler of
\* _process_job_in_slot returns (False, "cancelled") instead of re-raising
\* (wait_for of Python 3.12 awaits the coroutine in the worker's own task),
\* or the result was already there (wait_for up to 3.11 then returns it).
\* The worker goes on with the result of the attempt.
CancelLost(w) ==
    /\ w \in cancel_req
    /\ wpc[w] = "busy"
    /\ cancel_req' = cancel_req \ {w}
    /\ UNCHANGED <<queueVars, retry_count, workerVars, statVars, mainVars,
                   logVars>>
    /\ UNCHANGED <<paceVars, breakerVars, otherVars>>

Worker(w) ==
    \/ GetTask(w)
    \/ GetPill(w)
    \/ GetTimeout(w)
    \/ \E o \in Outcomes : Complete(w, o)
    \/ Cancelled(w)
    \/ CancelLost(w)

\* ---------------------------------------------------------------- scrape
\* while-condition of the wait loop (line 1592).
LoopCond == job_queue # <<>> \/ total_processed < NumTasks

\* Variant: the check compares with >= and so always sees progress.
Progressed_or_equal == total_processed >= last_processed

\* "if self.total_processed > last_processed" (line 1600).
Progressed == total_processed > last_processed

\* Variant: one pill too few.
NumPills_one_short == num_slots - 1

\* "for _ in range(self.num_slots)" (line 1620).
NumPills == num_slots

\* "for _ in range(self.num_slots): await job_queue.put(None)" and then the
\* scheduler suspends in wait_for(gather(*workers)).
SendPills ==
    /\ job_queue' = job_queue \o SeqOf(Pill, NumPills)
    /\ unfinished' = unfinished + NumPills
    /\ pills_sent' = pills_sent + NumPills
    /\ main_pc' = "gather"

\* job_queue.join() returns: "All jobs processed", break, pills.
JoinReturns ==
    /\ main_pc = "wait"
    /\ unfinished = 0
    /\ SendPills
    /\ UNCHANGED <<retry_count, workerVars, cancel_req, statVars,
                   last_processed, no_progress_count, deadlock_warning,
                   logVars>>
    /\ UNCHANGED <<paceVars, breakerVars, otherVars>>

\* wait_for(job_queue.join(), check_interval) times out: the progress check,
\* then either the next round of the loop or the pills.
JoinTimeout ==
    /\ main_pc = "wait"
    /\ unfinished > 0
    /\ LET forced == ~Progressed /\ no_progress_count + 1 >= max_no_progress
       IN
       /\ no_progress_count' = IF Progressed THEN 0 ELSE no_progress_count + 1
       /\ last_processed' = IF Progressed THEN total_processed ELSE last_processed
       /\ deadlock_warning' = (deadlock_warning \/ forced)
       /\ IF forced \/ ~LoopCond
          THEN SendPills
          ELSE UNCHANGED <<queueVars, pills_sent, main_pc>>
    /\ UNCHANGED <<retry_count, workerVars, cancel_req, statVars, logVars>>
    /\ UNCHANGED <<paceVars, breakerVars, otherVars>>

AllStopped == \A w \in Slots : wpc[w] \in {"exited", "cancelled"}

\* gather(*workers) completes within 30 s: cleanup, _print_summary.
GatherDone ==
    /\ main_pc = "gather"
    /\ AllStopped
    /\ main_pc' = "done"
    /\ UNCHANGED <<queueVars, retry_count, workerVars, cancel_req, statVars,
                   last_processed, no_progress_count, deadlock_warning,
                   pills_sent, logVars>>
    /\ UNCHANGED <<paceVars, breakerVars, otherVars>>

\* wait_for(gather) times out: w.cancel() for every worker.
GatherTimeout ==
    /\ main_pc = "gather"
    /\ ~AllStopped
    /\ main_pc' = "cancelling"
    /\ cancel_req' = {w \in Slots : wpc[w] \in {"get", "busy"}}
    /\ UNCHANGED <<queueVars, retry_count, workerVars, statVars, last_processed,
                   no_progress_count, deadlock_warning, pills_sent, logVars>>
    /\ UNCHANGED <<paceVars, breakerVars, otherVars>>

\* The second gather returns once every worker has stopped.
CancelDone ==
    /\ main_pc = "cancelling"
    /\ AllStopped
    /\ main_pc' = "done"
    /\ UNCHANGED <<queueVars, retry_count, workerVars, cancel_req, statVars,
                   last_processed, no_progress_count, deadlock_warning,
                   pills_sent, logVars>>
    /\ UNCHANGED <<paceVars, breakerVars, otherVars>>

Scheduler ==
    \/ JoinReturns
    \/ JoinTimeout
    \/ GatherDone
    \/ GatherTimeout
    \/ CancelDone

Next ==
    \/ Scheduler
    \/ \E w \in Slots : Worker(w)

Spec == Init /\ [][Next]_vars

\* The event loop runs every coroutine that is ready and fires every timer.
FairSpec ==
    /\ Spec
    /\ WF_vars(Scheduler)
    /\ \A w \in Slots : WF_vars(Worker(w))

\* ======================================================================
\* Pacing: _process_with_rate_limit up to the fetch, and the TokenBucket
\* ======================================================================
\* The clock.  A sleep is over when the clock has reached its due time; the
\* sleeper resumes then or later (the event loop may be busy).
Tick ==
    /\ now < min_interval_between_jobs + MaxTime
    /\ now' = now + 1
    /\ UNCHANGED <<scrapeVars, pacerVars, bucketVars, callerVars, breakerVars,
                   otherVars>>

\* Variant: the lock is still held while its owner sleeps.
LockWhileSleeping_held(w) == w

\* The owner of a lock while worker w sleeps after its "async with" block:
\* the block has been left before the sleep (lines 128, 327).
LockWhileSleeping(w) == NoOwner

\* ------------------------------------------- _acquire_job_start_slot
\* "self.last_job_start_time = now + wait_time" (line 322; line 325 with
\* wait_time = 0).
Reservation(wait_time) == now + wait_time

\* wait_time as computed under job_start_lock (lines 316-320).
PacerWait ==
    IF now - last_job_start_time < min_interval_between_jobs
    THEN min_interval_between_jobs - (now - last_job_start_time)
    ELSE 0

\* The locked block of _acquire_job_start_slot: reserve a start time, then
\* either go on at once or start the sleep.
StartJob(w) ==
    /\ ppc[w] = "idle"
    /\ job_start_lock = NoOwner
    /\ last_job_start_time' = Reservation(PacerWait)
    /\ IF PacerWait > 0
       THEN /\ ppc' = [ppc EXCEPT ![w] = "pacer_sleep"]
            /\ wake' = [wake EXCEPT ![w] = now + PacerWait]
            /\ job_start_lock' = LockWhileSleeping(w)
            /\ UNCHANGED <<last_leave, leaves>>
       ELSE /\ ppc' = [ppc EXCEPT ![w] = "paced"]
            /\ last_leave' = now
            /\ leaves' = leaves + 1
            /\ job_start_lock' = NoOwner
            /\ UNCHANGED wake
    /\ UNCHANGED <<scrapeVars, now, bucketVars, start_time, acquired, breakerVars,
                   otherVars>>

\* asyncio.sleep(wait_time) is over: the worker leaves the coordinator.
PacerWake(w) ==
    /\ ppc[w] = "pacer_sleep"
    /\ now >= wake[w]
    /\ ppc' = [ppc EXCEPT ![w] = "paced"]
    /\ wake' = [wake EXCEPT ![w] = 0]
    /\ last_leave' = now
    /\ leaves' = leaves + 1
    /\ UNCHANGED <<scrapeVars, now, job_start_lock, last_job_start_time,
                   bucketVars, start_time, acquired, breakerVars,
                   otherVars>>

\* ------------------------------------------------------- TokenBucket
\* tokens after _refill (lines 100-105).
Refilled == Min(capacity, tokens + (now - last_refill) * tokens_per_second)

\* "elapsed + wait_time > timeout" with wait_time = missing / rate
\* (lines 125, 129), multiplied through by the rate.
TimesOut(elapsed, missing) ==
    elapsed * tokens_per_second + missing > bucket_timeout * tokens_per_second

\* Variant: the token is taken when at least one unit is there.
HasToken_any(t) == t >= 1

\* "if self.tokens >= 1.0" (line 120).
HasToken(t) == t >= TokenUnit

\* One pass of the while loop of acquire, from "async with self._lock" to
\* the return or to the start of the sleep.
AcquirePoll(w) ==
    /\ ppc[w] = "acquire"
    /\ bucket_lock = NoOwner
    /\ last_refill' = now
    /\ IF HasToken(Refilled)
       THEN /\ tokens' = Refilled - TokenUnit
            /\ acquired' = [acquired EXCEPT ![w] = TRUE]
            /\ granted' = IF only_acquires THEN granted + 1 ELSE granted
            /\ ppc' = [ppc EXCEPT ![w] = "ready"]
            /\ start_time' = [start_time EXCEPT ![w] = 0]
            /\ bucket_lock' = NoOwner
            /\ UNCHANGED wake
       ELSE /\ tokens' = Refilled
            /\ UNCHANGED granted
            /\ IF TimesOut(now - start_time[w], TokenUnit - Refilled)
               THEN /\ acquired' = [acquired EXCEPT ![w] = FALSE]
                    /\ ppc' = [ppc EXCEPT ![w] = "ready"]
                    /\ start_time' = [start_time EXCEPT ![w] = 0]
                    /\ bucket_lock' = NoOwner
                    /\ UNCHANGED wake
               ELSE /\ ppc' = [ppc EXCEPT ![w] = "bucket_sleep"]
                    /\ wake' = [wake EXCEPT ![w] = now + 1]
                    /\ bucket_lock' = LockWhileSleeping(w)
                    /\ UNCHANGED <<acquired, start_time>>
    /\ UNCHANGED <<scrapeVars, now, pacerVars, tokens_per_second, only_acquires,
                   breakerVars,
                   otherVars>>

\* The sleep of acquire is over: "if time.time() - start_time > timeout:
\* return False", else the next pass of the loop.
BucketWake(w) ==
    /\ ppc[w] = "bucket_sleep"
    /\ now >= wake[w]
    /\ wake' = [wake EXCEPT ![w] = 0]
    /\ IF now - start_time[w] > bucket_timeout
       THEN /\ acquired' = [acquired EXCEPT ![w] = FALSE]
            /\ ppc' = [ppc EXCEPT ![w] = "ready"]
            /\ start_time' = [start_time EXCEPT ![w] = 0]
       ELSE /\ ppc' = [ppc EXCEPT ![w] = "acquire"]
            /\ UNCHANGED <<acquired, start_time>>
    /\ UNCHANGED <<scrapeVars, now, pacerVars, bucketVars, breakerVars,
                   otherVars>>

\* Variant: the penalty is not clamped at 0.
Penalized_unclamped(penalty_seconds) ==
    tokens - penalty_seconds * tokens_per_second

\* tokens after penalize (line 151).
Penalized(penalty_seconds) ==
    Max(0, tokens - penalty_seconds * tokens_per_second)

\* tokens after boost (line 158).
Boosted(boost_amount) == Min(capacity, tokens + boost_amount)

\* TokenBucket.penalize.
Penalize(penalty_seconds) ==
    /\ bucket_lock = NoOwner
    /\ tokens' = Penalized(penalty_seconds)
    /\ only_acquires' = FALSE
    /\ UNCHANGED <<bucket_lock, last_refill, tokens_per_second, granted>>

\* TokenBucket.boost.
Boost(boost_amount) ==
    /\ bucket_lock = NoOwner
    /\ tokens' = Boosted(boost_amount)
    /\ only_acquires' = FALSE
    /\ UNCHANGED <<bucket_lock, last_refill, tokens_per_second, granted>>

\* TokenBucket.set_rate: settle the tokens at the old rate, then switch.
SetRate(rate) ==
    /\ bucket_lock = NoOwner
    /\ tokens' = Refilled
    /\ last_refill' = now
    /\ tokens_per_second' = rate
    /\ only_acquires' = FALSE
    /\ UNCHANGED <<bucket_lock, granted>>

\* ------------------------------------------ _enforce_dispatch_delay
\* set_rate with the penalty or the normal rate (lines 393-402), then the
\* call of acquire: start_time = time.time() (line 113).
EnforceDispatchDelay(w, rate) ==
    /\ ppc[w] = "paced"
    /\ SetRate(rate)
    /\ ppc' = [ppc EXCEPT ![w] = "acquire"]
    /\ start_time' = [start_time EXCEPT ![w] = now]
    /\ UNCHANGED <<scrapeVars, now, pacerVars, wake, acquired, breakerVars,
                   otherVars>>

\* Variant: the fetch waits for a token that was granted.
FetchAllowed_granted(w) == acquired[w]

\* "if not acquired: logger.warning(... forcing dispatch)" (lines 409-410):
\* the dispatch goes on whatever acquire returned.
FetchAllowed(w) == TRUE

\* acquire has returned and the page fetch of _process_job_in_slot starts.
Fetch(w) ==
    /\ ppc[w] = "ready"
    /\ FetchAllowed(w)
    /\ ppc' = [ppc EXCEPT ![w] = "fetching"]
    /\ UNCHANGED <<scrapeVars, now, pacerVars, bucketVars, wake, start_time,
                   acquired, breakerVars,
                   otherVars>>

\* The fetch ends with a stored job: token_bucket.boost (lines 632-634).
FinishSuccess(w, boost_amount) ==
    /\ ppc[w] = "fetching"
    /\ Boost(boost_amount)
    /\ ppc' = [ppc EXCEPT ![w] = "idle"]
    /\ acquired' = [acquired EXCEPT ![w] = FALSE]
    /\ UNCHANGED <<scrapeVars, now, pacerVars, wake, start_time, breakerVars,
                   otherVars>>

\* The fetch ends with "rate_limit": token_bucket.penalize (line 1469).
FinishRateLimited(w, penalty_seconds) ==
    /\ ppc[w] = "fetching"
    /\ Penalize(penalty_seconds)
    /\ ppc' = [ppc EXCEPT ![w] = "idle"]
    /\ acquired' = [acquired EXCEPT ![w] = FALSE]
    /\ UNCHANGED <<scrapeVars, now, pacerVars, wake, start_time, breakerVars,
                   otherVars>>

\* The fetch ends with any other outcome: the bucket is left alone.
FinishOther(w) ==
    /\ ppc[w] = "fetching"
    /\ ppc' = [ppc EXCEPT ![w] = "idle"]
    /\ acquired' = [acquired EXCEPT ![w] = FALSE]
    /\ UNCHANGED <<scrapeVars, now, pacerVars, bucketVars, wake, start_time,
                   breakerVars,
                   otherVars>>

PaceWorker(w) ==
    \/ StartJob(w)
    \/ PacerWake(w)
    \/ \E rate \in Rates : EnforceDispatchDelay(w, rate)
    \/ AcquirePoll(w)
    \/ BucketWake(w)
    \/ Fetch(w)
    \/ \E boost_amount \in BoostAmounts : FinishSuccess(w, boost_amount)
    \/ \E penalty_seconds \in PenaltySeconds : FinishRateLimited(w, penalty_seconds)
    \/ FinishOther(w)

PaceNext == Tick \/ \E w \in Slots : PaceWorker(w)

\* The workers of one scrape, each pacing and fetching job after job.
PaceSpec == Init /\ [][PaceNext]_vars

\* ------------------------------------- the TokenBucket on its own
\* A caller calls acquire: start_time = time.time() (line 113).
CallAcquire(w) ==
    /\ ppc[w] = "idle"
    /\ ppc' = [ppc EXCEPT ![w] = "acquire"]
    /\ start_time' = [start_time EXCEPT ![w] = now]
    /\ UNCHANGED <<scrapeVars, now, pacerVars, bucketVars, wake, acquired,
                   breakerVars,
                   otherVars>>

\* acquire has returned to its caller.
Return(w) ==
    /\ ppc[w] = "ready"
    /\ ppc' = [ppc EXCEPT ![w] = "idle"]
    /\ acquired' = [acquired EXCEPT ![w] = FALSE]
    /\ UNCHANGED <<scrapeVars, now, pacerVars, bucketVars, wake, start_time,
                   breakerVars,
                   otherVars>>

CallPenalize(w, penalty_seconds) ==
    /\ ppc[w] = "idle"
    /\ Penalize(penalty_seconds)
    /\ UNCHANGED <<scrapeVars, now, pacerVars, callerVars, breakerVars,
                   otherVars>>

CallBoost(w, boost_amount) ==
    /\ ppc[w] = "idle"
    /\ Boost(boost_amount)
    /\ UNCHANGED <<scrapeVars, now, pacerVars, callerVars, breakerVars,
                   otherVars>>

CallSetRate(w, rate) ==
    /\ ppc[w] = "idle"
    /\ SetRate(rate)
    /\ UNCHANGED <<scrapeVars, now, pacerVars, callerVars, breakerVars,
                   otherVars>>

BucketCaller(w) ==
    \/ CallAcquire(w)
    \/ AcquirePoll(w)
    \/ BucketWake(w)
    \/ Return(w)
    \/ \E penalty_seconds \in PenaltySeconds : CallPenalize(w, penalty_seconds)
    \/ \E boost_amount \in BoostAmounts : CallBoost(w, boost_amount)
    \/ \E rate \in Rates : CallSetRate(w, rate)

BucketNext == Tick \/ \E w \in Slots : BucketCaller(w)

\* One TokenBucket and callers that use its operations in any order.
BucketSpec == Init /\ [][BucketNext]_vars

\* ======================================================================
\* CircuitBreaker (services/base/circuit_breaker.py)
\* ======================================================================
\* recent after one more outcome has been recorded.
Recorded(outcome) ==
    IF Len(recent) < failure_threshold
    THEN Append(recent, outcome)
    ELSE Append(Tail(recent), outcome)

\* failure_run after a call other than record_failure: 0 when the breaker
\* is CLOSED with failure_count 0, else -1 (no run is being counted).
RunAfter(st, count) == IF st = "closed" /\ count = 0 THEN 0 ELSE -1

\* Variant: the breaker recovers as soon as recovery_timeout is reached.
Recovered_at == now - last_failure_time >= recovery_timeout

\* "current_time - self.last_failure_time > self.config.recovery_timeout"
\* (line 35).
Recovered == now - last_failure_time > recovery_timeout

\* The body of check_state: an OPEN breaker whose recovery_timeout has
\* passed becomes HALF_OPEN; an OPEN breaker before that raises
\* CircuitOpenError and nothing changes; in the other states nothing
\* happens.
check_state ==
    /\ IF state = "open"
       THEN IF Recovered
            THEN /\ state' = "half_open"
                 /\ success_count' = 0
                 /\ raised' = FALSE
                 /\ probes' = 0
            ELSE /\ raised' = TRUE
                 /\ UNCHANGED <<state, success_count, probes>>
       ELSE /\ raised' = FALSE
            /\ UNCHANGED <<state, success_count, probes>>
    /\ failure_run' = RunAfter(state', failure_count)
    /\ UNCHANGED <<failure_count, last_failure_time, recent>>

\* A call of check_state.
CheckState ==
    /\ check_state
    /\ UNCHANGED <<scrapeVars, paceVars, otherVars>>

\* Variant: the breaker closes one success later.
Closes_late(count) == count > success_threshold

\* "if self.success_count >= self.config.success_threshold" (line 45).
Closes(count) == count >= success_threshold

\* Variant: a success lowers failure_count in every state but HALF_OPEN.
record_success_decays_open ==
    /\ IF state = "half_open"
       THEN /\ success_count' = success_count + 1
            /\ probes' = probes + 1
            /\ IF Closes(success_count + 1)
               THEN state' = "closed" /\ failure_count' = 0
               ELSE UNCHANGED <<state, failure_count>>
       ELSE /\ failure_count' = Max(0, failure_count - 1)
            /\ UNCHANGED <<state, success_count, probes>>
    /\ failure_run' = RunAfter(state', failure_count')
    /\ recent' = Recorded("success")
    /\ UNCHANGED <<last_failure_time, raised>>

\* The body of record_success.
record_success ==
    /\ IF state = "half_open"
       THEN /\ success_count' = success_count + 1
            /\ probes' = probes + 1
            /\ IF Closes(success_count + 1)
               THEN state' = "closed" /\ failure_count' = 0
               ELSE UNCHANGED <<state, failure_count>>
       ELSE IF state = "closed"
       THEN /\ failure_count' = Max(0, failure_count - 1)
            /\ UNCHANGED <<state, success_count, probes>>
       ELSE UNCHANGED <<state, failure_count, success_count, probes>>
    /\ failure_run' = RunAfter(state', failure_count')
    /\ recent' = Recorded("success")
    /\ UNCHANGED <<last_failure_time, raised>>

\* A call of record_success.
RecordSuccess ==
    /\ record_success
    /\ UNCHANGED <<scrapeVars, paceVars, otherVars>>

\* Variant: the breaker opens one failure later.
Trips_late(count) == count > failure_threshold

\* Variant: the breaker opens only when the counter hits the threshold.
Trips_exactly(count) == count = failure_threshold

\* "if self.failure_count >= self.config.failure_threshold" (line 56).
Trips(count) == count >= failure_threshold

\* The body of record_failure.
record_failure ==
    /\ failure_count' = failure_count + 1
    /\ last_failure_time' = now
    /\ state' = IF Trips(failure_count + 1) THEN "open" ELSE state
    /\ failure_run' = IF failure_run >= 0 THEN failure_run + 1 ELSE failure_run
    /\ recent' = Recorded("failure")
    /\ UNCHANGED <<success_count, raised, probes>>

\* A call of record_failure.
RecordFailure ==
    /\ failure_count < MaxFailures
    /\ record_failure
    /\ UNCHANGED <<scrapeVars, paceVars, otherVars>>

BreakerNext == Tick \/ CheckState \/ RecordSuccess \/ RecordFailure

\* One CircuitBreaker whose three methods are called in any order.
BreakerSpec == Init /\ [][BreakerNext]_vars

\* ======================================================================
\* BaseHeadlessXClient.make_request_with_retry (services/base/base_client.py)
\* ======================================================================
\* Coroutine c has the semaphore: "self.circuit_breaker.check_state()"
\* (line 53); if it raises, the "async with" block is left and the call
\* ends with CircuitOpenError, else attempt 0 is issued (line 57) and the
\* coroutine waits for the response.
Enter(c) ==
    /\ check_state
    /\ calls' = [calls EXCEPT ![c] = @ + 1]
    /\ attempt' = [attempt EXCEPT ![c] = 0]
    /\ IF raised'
       THEN /\ cpc' = [cpc EXCEPT ![c] = "idle"]
            /\ checked' = [checked EXCEPT ![c] = FALSE]
       ELSE /\ cpc' = [cpc EXCEPT ![c] = "request"]
            /\ checked' = [checked EXCEPT ![c] = TRUE]

\* A call of make_request_with_retry: "async with self.semaphore" (line
\* 52).  With a free permit the coroutine goes on at once and holds the
\* permit while its request is in flight; without one it waits.
Call(c) ==
    /\ cpc[c] = "idle"
    /\ calls[c] < MaxCalls
    /\ IF permits > 0
       THEN /\ Enter(c)
            /\ permits' = IF raised' THEN permits ELSE permits - 1
       ELSE /\ cpc' = [cpc EXCEPT ![c] = "queued"]
            /\ UNCHANGED <<breakerVars, attempt, permits, calls, checked>>
    /\ UNCHANGED <<scrapeVars, paceVars, throttleVars, pageVars, restVars>>

\* A coroutine that waited for the semaphore gets a permit.
Admit(c) ==
    /\ cpc[c] = "queued"
    /\ permits > 0
    /\ Enter(c)
    /\ permits' = IF raised' THEN permits ELSE permits - 1
    /\ UNCHANGED <<scrapeVars, paceVars, throttleVars, pageVars, restVars>>

\* The request returns a response: record_success, return (lines 60-61);
\* the semaphore is released.
Respond(c) ==
    /\ cpc[c] = "request"
    /\ record_success
    /\ cpc' = [cpc EXCEPT ![c] = "idle"]
    /\ checked' = [checked EXCEPT ![c] = FALSE]
    /\ permits' = permits + 1
    /\ UNCHANGED <<scrapeVars, paceVars, throttleVars, pageVars, restVars,
                   attempt, calls>>

\* The request raises: record_failure (line 64); after the last attempt
\* HeadlessXError is raised and the semaphore released, else the coroutine
\* sleeps in sleep_with_backoff.
Fail(c) ==
    /\ cpc[c] = "request"
    /\ record_failure
    /\ checked' = [checked EXCEPT ![c] = FALSE]
    /\ IF attempt[c] = max_attempts - 1
       THEN /\ cpc' = [cpc EXCEPT ![c] = "idle"]
            /\ permits' = permits + 1
       ELSE /\ cpc' = [cpc EXCEPT ![c] = "backoff"]
            /\ UNCHANGED permits
    /\ UNCHANGED <<scrapeVars, paceVars, throttleVars, pageVars, restVars,
                   attempt, calls>>

\* The backoff sleep is over: the next pass of the loop issues the next
\* attempt (line 57).  The loop holds no call of check_state; the only
\* one is line 53, before the loop.
Retry(c) ==
    /\ cpc[c] = "backoff"
    /\ attempt' = [attempt EXCEPT ![c] = @ + 1]
    /\ cpc' = [cpc EXCEPT ![c] = "request"]
    /\ UNCHANGED <<scrapeVars, paceVars, breakerVars, throttleVars, pageVars,
                   restVars, permits, calls, checked>>

ClientNext ==
    \/ Tick
    \/ \E c \in Coroutines :
          Call(c) \/ Admit(c) \/ Respond(c) \/ Fail(c) \/ Retry(c)

\* The coroutines that share one client and its breaker.
ClientSpec == Init /\ [][ClientNext]_vars

\* ------------------------------------------------- adaptive throttle
\* The success branch of _process_job_in_slot under stats_lock (lines
\* 603-629).  The token-bucket calls that follow it (lines 632-634) are
\* FinishSuccess.
ThrottleSuccess ==
    /\ consecutive_429_count' = Max(0, consecutive_429_count - 1)
    /\ IF consecutive_success_count + 1 >= delay_success_threshold
       THEN /\ current_delay' =
                   Max(min_delay, current_delay - delay_reduction_step)
            /\ consecutive_success_count' = 0
       ELSE /\ consecutive_success_count' = consecutive_success_count + 1
            /\ UNCHANGED current_delay
    /\ last_outcome' = "success"
    /\ streak' = (streak + 1) % delay_success_threshold
    /\ UNCHANGED <<self_num_slots, delay_between_jobs>>
    /\ UNCHANGED <<scrapeVars, paceVars, breakerVars, clientVars, pageVars,
                   restVars>>

\* slot_worker on error_type "rate_limit", under stats_lock (lines
\* 1465-1468).  The penalize that follows (line 1469) is FinishRateLimited.
ThrottleRateLimited ==
    /\ consecutive_429_count < Max429
    /\ consecutive_429_count' = consecutive_429_count + 1
    /\ current_delay' = delay_between_jobs
    /\ consecutive_success_count' = 0
    /\ last_outcome' = "rate_limit"
    /\ streak' = 0
    /\ UNCHANGED <<self_num_slots, delay_between_jobs>>
    /\ UNCHANGED <<scrapeVars, paceVars, breakerVars, clientVars, pageVars,
                   restVars>>

\* slot_worker on any other outcome (lines 1493-1506: server_error,
\* authwall, timeout, expired, error): the throttle is left alone.
ThrottleOther ==
    /\ last_outcome' = "other"
    /\ streak' = 0
    /\ UNCHANGED <<self_num_slots, delay_between_jobs, current_delay,
                   consecutive_success_count, consecutive_429_count>>
    /\ UNCHANGED <<scrapeVars, paceVars, breakerVars, clientVars, pageVars,
                   restVars>>

\* "normal_rate = float(self.num_slots) / self.current_delay" (line 400;
\* base_rate, line 393, is the same); current_delay is in 1/100 s.
normal_rate == (self_num_slots * 100 * RateUnit) \div current_delay

\* Variant: no floor under the penalty rate.
penalty_rate_no_floor(count) == (normal_rate * 2 ^ count) \div 3 ^ count

\* "penalty_rate = base_rate / (1.5 ** self.consecutive_429_count);
\* penalty_rate = max(0.5, penalty_rate)" (lines 394-395).
penalty_rate(count) ==
    Max(RateUnit \div 2, (normal_rate * 2 ^ count) \div 3 ^ count)

\* _enforce_dispatch_delay up to its set_rate call (lines 391-401).
ThrottleDispatch ==
    /\ set_rate_arg' = IF consecutive_429_count > 0
                       THEN penalty_rate(consecutive_429_count)
                       ELSE normal_rate
    /\ UNCHANGED <<throttleVars, qbVars, slotVars, limiterVars>>
    /\ UNCHANGED <<scrapeVars, paceVars, breakerVars, clientVars, pageVars>>

ThrottleNext ==
    ThrottleSuccess \/ ThrottleRateLimited \/ ThrottleOther
        \/ ThrottleDispatch

\* The scraper is constructed with any arguments.
ThrottleStart ==
    \E slots_arg \in NumSlotsArgs, delay \in BaseDelays :
        /\ ScrapeInit
        /\ PaceInit
        /\ BreakerInit
        /\ ClientInit
        /\ PageInit
        /\ RestInit
        /\ Constructed(slots_arg, delay)

\* Then it handles outcomes.
ThrottleSpec == ThrottleStart /\ [][ThrottleNext]_vars

\* ------------------------------------------------------- classification
\* except ExpiredJobError (lines 669-736): the error_type returned for the
\* message of the exception.  is_authwall (line 676) is true of the
\* messages whose text contains "authwall", "login" or "redirect".
ExpiredAs(message) ==
    IF message \in {"Authwall URL", "Redirected away from job",
                    "Authwall - data not accessible"}
    THEN "authwall"
    ELSE "expired"

\* The pre-check of the task URL (lines 445-446).
PreCheck(url) ==
    ContainsAny(url, {"authwall", "login", "signin", "checkpoint",
                      "uas/login"})

\* The complete redirect away from the job page (lines 497-499).
CompleteRedirect(current_url) ==
    /\ ~Contains(current_url, "/jobs/view/")
    /\ ~Contains(current_url, "job_id")
    /\ ContainsAny(current_url, {"/feed", "/login"})

\* The check of the HTTP status (lines 504-511); "none": no rule fires.
StatusRule(status) ==
    IF status = NoResponse THEN "none"
    ELSE IF status = 429 THEN "rate_limit"
    ELSE IF status = 404 THEN "expired"
    ELSE IF status >= 500 THEN "server_error"
    ELSE "none"

\* goto returned, with a response or with None (lines 464-468).
Responded(p) == ~PreCheck(p.url) /\ p.fault # "navigation_timeout"

\* Lines 444-511 in the order of the code: pre-check, navigation,
\* redirect, status.
Navigated(p) ==
    IF PreCheck(p.url) THEN ExpiredAs("Authwall URL")
    ELSE IF p.fault = "navigation_timeout"
    THEN ExpiredAs("Navigation timeout")
    ELSE IF CompleteRedirect(p.current_url)
    THEN ExpiredAs("Redirected away from job")
    ELSE StatusRule(p.status)

\* _extract_job_data up to the language check (lines 784-860): the 404
\* title, the body, the expired phrases, the language of the description.
Gone(p) ==
    IF ContainsAny(p.page_title, {"404", "not found"})
    THEN ExpiredAs("404 page")
    ELSE IF p.fault = "content_timeout"
    THEN ExpiredAs("Page content timeout")
    ELSE IF ContainsAny(p.page_text, {"no longer available", "expired"})
    THEN ExpiredAs("Expired: no longer available")
    ELSE IF p.job_description = "non_english"
    THEN ExpiredAs("Non-English job description")
    ELSE "none"

\* Variant: the login signals are looked at whether or not the data is
\* there.
data_is_accessible_unchecked(description, company) == FALSE

\* data_is_accessible (line 874).
data_is_accessible(description, company) == description /\ company

\* is_authwall (lines 881-895).
is_authwall(p) ==
    LET is_authwall_url ==
            ContainsAny(p.current_url,
                        {"authwall", "login", "signin", "checkpoint",
                         "uas/login", "session_redirect"})
        login_matches ==
            Cardinality(p.page_text \cap {"sign in", "join now"})
        has_job_content ==
            ContainsAny(p.page_text,
                        {"responsibilities", "requirements", "experience"})
    IN  (is_authwall_url \/ login_matches >= 2) /\ ~has_job_content

\* The authwall detection (lines 874-909); "error" is the ValueError that
\* _process_job_in_slot turns into error_type "error" (lines 757-773).
Accessed(p) ==
    IF ~data_is_accessible(p.job_description # "", p.company_name)
    THEN IF is_authwall(p)
         THEN ExpiredAs("Authwall - data not accessible")
         ELSE IF p.job_description = "" THEN "error"
         ELSE IF ~p.company_name THEN "error"
         ELSE "none"
    ELSE "none"

\* Pre-check, page.goto, redirect and status rules (lines 444-511).
Navigate ==
    /\ jpc = "start"
    /\ IF Navigated(page) = "none"
       THEN jpc' = "loaded" /\ UNCHANGED <<result, decided_by>>
       ELSE /\ jpc' = "done"
            /\ result' = Navigated(page)
            /\ decided_by' = "navigate"
    /\ UNCHANGED <<page, tried>>
    /\ UNCHANGED <<scrapeVars, paceVars, breakerVars, clientVars,
                   throttleVars, restVars>>

\* _extract_job_data up to the end of the authwall detection (lines
\* 784-909).
Extract ==
    /\ jpc = "loaded"
    /\ tried' = (Gone(page) = "none")
    /\ IF Gone(page) # "none"
       THEN /\ jpc' = "done"
            /\ result' = Gone(page)
            /\ decided_by' = "extract"
       ELSE IF Accessed(page) # "none"
       THEN /\ jpc' = "done"
            /\ result' = Accessed(page)
            /\ decided_by' = "extract"
       ELSE jpc' = "extracted" /\ UNCHANGED <<result, decided_by>>
    /\ UNCHANGED page
    /\ UNCHANGED <<scrapeVars, paceVars, breakerVars, clientVars,
                   throttleVars, restVars>>

\* The rest: validate_job (lines 956-960), store_details (lines 562-667).
Store ==
    /\ jpc = "extracted"
    /\ jpc' = "done"
    /\ result' = IF page.verdict = "invalid" THEN "error"
                 ELSE IF page.verdict = "stored" THEN "success"
                 ELSE "storage_failed"
    /\ decided_by' = "store"
    /\ UNCHANGED <<page, tried>>
    /\ UNCHANGED <<scrapeVars, paceVars, breakerVars, clientVars,
                   throttleVars, restVars>>

ClassifyNext == Navigate \/ Extract \/ Store

\* _process_job_in_slot is entered with any page.
ClassifyStart ==
    \E p \in Pages :
        /\ ScrapeInit
        /\ PaceInit
        /\ BreakerInit
        /\ ClientInit
        /\ ThrottleInit
        /\ RestInit
        /\ Entered(p)

\* The page is processed once.
ClassifySpec == ClassifyStart /\ [][ClassifyNext]_vars

\* --------------------------------------------------- QueueBasedScraper
\* The state outside QueueBasedScraper.
notQueueVars ==
    <<scrapeVars, paceVars, breakerVars, clientVars, throttleVars, pageVars,
      slotVars, set_rate_arg, limiterVars>>

\* A counter after += 1.
Counted(n) == IF n < MaxCount THEN n + 1 ELSE n

\* The tasks scrape puts for urls (lines 395-411): the urls that are not
\* in seen_urls / seen_job_ids, in input order.
Fresh(id) == id \notin seen_job_ids
Enqueued == SelectSeq(urls, Fresh)

\* scrape fills the queue (lines 394-413).
QPopulate ==
    /\ qb_pc = "populate"
    /\ qb_queue' = Enqueued
    /\ qb_unfinished' = Len(Enqueued)
    /\ existed' = stored_jobs \cup seen_job_ids
    /\ qb_pc' = "launch"
    /\ UNCHANGED <<urls, wk_pc, wk_task, worker_stats, qb_totals,
                   seen_job_ids, stored_jobs, qb_fetches, qb_persists>>
    /\ UNCHANGED notQueueVars

\* scrape starts the next worker and sleeps one second (lines 417-421);
\* after the last one it waits in job_queue.join().
QLaunch(w) ==
    /\ qb_pc = "launch"
    /\ wk_pc[w] = "new"
    /\ \A v \in Workers : v < w => wk_pc[v] # "new"
    /\ wk_pc' = [wk_pc EXCEPT ![w] = "get"]
    /\ qb_pc' = IF \A v \in Workers : v <= w THEN "join" ELSE "launch"
    /\ UNCHANGED <<urls, qb_queue, qb_unfinished, wk_task, worker_stats,
                   qb_totals, seen_job_ids, stored_jobs, existed, qb_fetches,
                   qb_persists>>
    /\ UNCHANGED notQueueVars

\* job_queue.join() returns; one None per worker is put (lines 426-430).
QJoined ==
    /\ qb_pc = "join"
    /\ qb_unfinished = 0
    /\ qb_queue' = qb_queue \o SeqOf(Pill, Cardinality(Workers))
    /\ qb_unfinished' = qb_unfinished + Cardinality(Workers)
    /\ qb_pc' = "gather"
    /\ UNCHANGED <<urls, wk_pc, wk_task, worker_stats, qb_totals,
                   seen_job_ids, stored_jobs, existed, qb_fetches,
                   qb_persists>>
    /\ UNCHANGED notQueueVars

\* asyncio.gather(*workers) returns (line 433); scrape returns.
QGathered ==
    /\ qb_pc = "gather"
    /\ \A w \in Workers : wk_pc[w] = "exit"
    /\ qb_pc' = "done"
    /\ UNCHANGED <<urls, qb_queue, qb_unfinished, wk_pc, wk_task,
                   worker_stats, qb_totals, seen_job_ids, stored_jobs,
                   existed, qb_fetches, qb_persists>>
    /\ UNCHANGED notQueueVars

\* worker: job_queue.get() returns (lines 127-138).  None ends the loop,
\* without task_done; a task is counted and page.goto is called for it.
QGet(w) ==
    /\ wk_pc[w] = "get"
    /\ qb_queue # <<>>
    /\ qb_queue' = Tail(qb_queue)
    /\ IF Head(qb_queue) = Pill
       THEN /\ wk_pc' = [wk_pc EXCEPT ![w] = "exit"]
            /\ UNCHANGED <<wk_task, worker_stats, qb_fetches>>
       ELSE /\ wk_pc' = [wk_pc EXCEPT ![w] = "process"]
            /\ wk_task' = [wk_task EXCEPT ![w] = Head(qb_queue)]
            /\ worker_stats' =
                   [worker_stats EXCEPT ![w].processed = Counted(@)]
            /\ qb_fetches' =
                   [qb_fetches EXCEPT ![Head(qb_queue)] = Counted(@)]
    /\ UNCHANGED <<urls, qb_pc, qb_unfinished, qb_totals, seen_job_ids,
                   stored_jobs, existed, qb_persists>>
    /\ UNCHANGED notQueueVars

\* _process_job stores the job and returns it (lines 355-360, 140-150,
\* 179-186).
QSuccess(w) ==
    /\ wk_pc[w] = "process"
    /\ stored_jobs' = stored_jobs \cup {wk_task[w]}
    /\ seen_job_ids' = seen_job_ids \cup {wk_task[w]}
    /\ qb_persists' = [qb_persists EXCEPT ![wk_task[w]] = Counted(@)]
    /\ worker_stats' =
           [worker_stats EXCEPT ![w].success = Counted(@),
                                ![w].current_delay = base_delay]
    /\ qb_unfinished' = qb_unfinished - 1
    /\ qb_totals' = [qb_totals EXCEPT !.success = Counted(@),
                                      !.processed = Counted(@)]
    /\ wk_pc' = [wk_pc EXCEPT ![w] = "delay"]
    /\ UNCHANGED <<urls, qb_pc, qb_queue, wk_task, existed, qb_fetches>>
    /\ UNCHANGED notQueueVars

\* _process_job raises RateLimitError (lines 220-221, 152-163): the task
\* is put again and the worker sleeps current_delay.
QRateLimited(w) ==
    /\ wk_pc[w] = "process"
    /\ worker_stats' =
           [worker_stats EXCEPT
               ![w].rate_limited = Counted(@),
               ![w].current_delay = Min(@ * 2, max_delay)]
    /\ qb_queue' = Append(qb_queue, wk_task[w])
    /\ qb_unfinished' = qb_unfinished + 1
    /\ wk_pc' = [wk_pc EXCEPT ![w] = "cooldown"]
    /\ UNCHANGED <<urls, qb_pc, wk_task, qb_totals, seen_job_ids,
                   stored_jobs, existed, qb_fetches, qb_persists>>
    /\ UNCHANGED notQueueVars

\* The sleep after the 429 is over: finally (lines 179-186).
QCooled(w) ==
    /\ wk_pc[w] = "cooldown"
    /\ qb_unfinished' = qb_unfinished - 1
    /\ qb_totals' = [qb_totals EXCEPT !.processed = Counted(@)]
    /\ wk_pc' = [wk_pc EXCEPT ![w] = "delay"]
    /\ UNCHANGED <<urls, qb_pc, qb_queue, wk_task, worker_stats,
                   seen_job_ids, stored_jobs, existed, qb_fetches,
                   qb_persists>>
    /\ UNCHANGED notQueueVars

\* _process_job raises ExpiredJobError (lines 165-170, 179-186).
QExpired(w) ==
    /\ wk_pc[w] = "process"
    /\ worker_stats' = [worker_stats EXCEPT ![w].expired = Counted(@)]
    /\ qb_unfinished' = qb_unfinished - 1
    /\ qb_totals' = [qb_totals EXCEPT !.expired = Counted(@),
                                      !.processed = Counted(@)]
    /\ wk_pc' = [wk_pc EXCEPT ![w] = "delay"]
    /\ UNCHANGED <<urls, qb_pc, qb_queue, wk_task, seen_job_ids,
                   stored_jobs, existed, qb_fetches, qb_persists>>
    /\ UNCHANGED notQueueVars

\* _process_job raises another exception: ServerError, LoginWallError,
\* ValueError, a Playwright error (lines 172-177, 179-186).
QFailed(w) ==
    /\ wk_pc[w] = "process"
    /\ worker_stats' = [worker_stats EXCEPT ![w].failed = Counted(@)]
    /\ qb_unfinished' = qb_unfinished - 1
    /\ qb_totals' = [qb_totals EXCEPT !.failed = Counted(@),
                                      !.processed = Counted(@)]
    /\ wk_pc' = [wk_pc EXCEPT ![w] = "delay"]
    /\ UNCHANGED <<urls, qb_pc, qb_queue, wk_task, seen_job_ids,
                   stored_jobs, existed, qb_fetches, qb_persists>>
    /\ UNCHANGED notQueueVars

\* The sleep at the end of the loop body is over (lines 184-192).
QDelayed(w) ==
    /\ wk_pc[w] = "delay"
    /\ wk_pc' = [wk_pc EXCEPT ![w] = "get"]
    /\ wk_task' = [wk_task EXCEPT ![w] = Pill]
    /\ UNCHANGED <<urls, qb_pc, qb_queue, qb_unfinished, worker_stats,
                   qb_totals, seen_job_ids, stored_jobs, existed, qb_fetches,
                   qb_persists>>
    /\ UNCHANGED notQueueVars

QWorker(w) ==
    \/ QGet(w)
    \/ QSuccess(w)
    \/ QRateLimited(w)
    \/ QCooled(w)
    \/ QExpired(w)
    \/ QFailed(w)
    \/ QDelayed(w)

QueueNext ==
    \/ QPopulate
    \/ \E w \in Workers : QLaunch(w)
    \/ QJoined
    \/ QGathered
    \/ \E w \in Workers : QWorker(w)

\* scrape is called with any urls, on a database that holds any jobs, on
\* a scraper that has stored any of them itself.
QueueStart ==
    \E url_list \in UrlLists, stored \in SUBSET Ids :
        \E seen \in SUBSET stored :
            /\ ScrapeInit
            /\ PaceInit
            /\ BreakerInit
            /\ ClientInit
            /\ ThrottleInit
            /\ PageInit
            /\ SlotInit
            /\ set_rate_arg = NoRate
            /\ LimiterInit(<<>>)
            /\ QueueCreated(url_list, stored, seen)

QueueSpec == QueueStart /\ [][QueueNext]_vars

\* Every coroutine that can run does run, and every sleep ends.
QueueFairSpec ==
    /\ QueueSpec
    /\ WF_vars(QPopulate)
    /\ WF_vars(QJoined)
    /\ WF_vars(QGathered)
    /\ \A w \in Workers :
          /\ WF_vars(QLaunch(w))
          /\ WF_vars(QGet(w))
          /\ WF_vars(QSuccess(w) \/ QRateLimited(w) \/ QExpired(w)
                        \/ QFailed(w))
          /\ WF_vars(QCooled(w))
          /\ WF_vars(QDelayed(w))

\* ======================================================================
\* slot_worker statement by statement (lines 1365-1568)
\* ======================================================================
\* One pass of the worker loop over a job: the rate limit wait, the fetch,
\* and then the blocks of "Handle result" one after the other.  A block is
\* the code of one "async with <lock>:" statement, or a run of statements
\* outside every lock; ops names the fields it writes.  An asyncio lock is
\* taken in one step and the block runs, and releases the lock, in the
\* next.  Nothing between the end of a fetch and the next job_queue.get()
\* suspends (the locks are free, the queue is unbounded), so the event
\* loop runs these blocks in one piece: while a worker is there, no other
\* coroutine runs and the clock stands.  The adaptive delay fields written
\* by the "throttle" blocks are followed by ThrottleSpec, the waits of
\* _acquire_job_start_slot and _enforce_dispatch_delay by PaceSpec: here
\* they take any time, possibly none.
SlotOutcomes ==
    {"success", "rate_limit", "server_error", "expired", "error"}

Block(lock, ops) == [lock |-> lock, ops |-> ops]

\* "backoff = self.rate_limit_backoff_base * (2 ** task.retry_count);
\* backoff = min(backoff, 300)" (lines 1478-1479).
backoff(t) == Min(rate_limit_backoff_base * 2 ^ retry_count[t], max_backoff)

\* What _process_job_in_slot counts before it returns: the success path
\* (lines 597-605) and the ExpiredJobError handler (lines 680-681).
InSlot(o) ==
    CASE o = "success" -> <<Block("results_lock", {"total_success"}),
                            Block("stats_lock", {"throttle"})>>
      [] o = "expired" -> <<Block("stats_lock", {"total_expired"})>>
      [] OTHER -> <<>>

\* The can_retry branch of a 429 (lines 1477-1486).
Retry429 ==
    <<Block("stats_lock", {"rate_limit_until", "total_429_retries"}),
      Block("none", {"requeue"}),
      Block("stats_lock", {"total_retried"})>>

\* The else branch of a 429 (lines 1488-1490).
Fail429 == <<Block("stats_lock", {"total_failed"})>>

\* "Handle result" (lines 1463-1506) for the error_type of outcome o.
Handle(o, t) ==
    CASE o = "rate_limit" -> <<Block("stats_lock", {"throttle"}),
                               Block("none", {"can_retry"})>>
      [] o = "server_error" ->
            IF retry_count[t] < max_retries
            THEN <<Block("none", {"requeue", "total_retried"})>>
            ELSE <<Block("none", {"total_failed"})>>
      [] o = "error" -> <<Block("none", {"total_failed"})>>
      [] OTHER -> <<>>

\* Variant: task_done is called as soon as the result is there.
AfterFetch_done_first(o, t) ==
    <<Block("none", {"task_done"})>> \o InSlot(o) \o Handle(o, t)
        \o <<Block("none", {"total_processed"}), Block("none", {"next"})>>

\* Everything between the end of the fetch and the next job_queue.get():
\* the counting, "self.total_processed += 1" (line 1508), and the
\* task_done of the finally block (lines 1553-1559).
AfterFetch(o, t) ==
    InSlot(o) \o Handle(o, t)
        \o <<Block("none", {"total_processed"}),
             Block("none", {"task_done", "next"})>>

LockOwner(lock) == IF lock = "stats_lock" THEN stats_lock ELSE results_lock

\* No worker is between the end of a fetch and its next job_queue.get().
LoopFree == \A v \in Slots : spc[v] # "handle"

notSlotVars ==
    <<paceVars, breakerVars, clientVars, throttleVars, pageVars, qbVars,
      set_rate_arg, limiterVars>>

\* job_queue.get() returns a JobTask (lines 1372, 1396).
SGet(w) ==
    /\ LoopFree
    /\ spc[w] = "get"
    /\ job_queue # <<>> /\ Head(job_queue) # Pill
    /\ job_queue' = Tail(job_queue)
    /\ wtask' = [wtask EXCEPT ![w] = Head(job_queue)]
    /\ spc' = [spc EXCEPT ![w] = "start"]
    /\ UNCHANGED <<unfinished, retry_count, wpc, consecutive_timeouts,
                   cancel_req, statVars, mainVars, logVars>>
    /\ UNCHANGED <<stats_lock, results_lock, rate_limit_until, swake, todo,
                   quiet_until>>
    /\ UNCHANGED notSlotVars

\* "wait_time = await self._wait_for_rate_limit(); if wait_time > 0:
\* capped_wait = min(wait_time, 5.0); await asyncio.sleep(capped_wait)"
\* (lines 287-296, 1421-1426).
SRateLimitWait(w) ==
    /\ LoopFree
    /\ spc[w] = "start"
    /\ LET wait_time == IF rate_limit_until > now
                        THEN rate_limit_until - now ELSE 0
       IN IF wait_time > 0
          THEN /\ swake' = [swake EXCEPT
                              ![w] = now + Min(wait_time, max_rate_limit_wait)]
               /\ spc' = [spc EXCEPT ![w] = "pause"]
          ELSE /\ spc' = [spc EXCEPT ![w] = "ready"]
               /\ UNCHANGED swake
    /\ UNCHANGED <<stats_lock, results_lock, rate_limit_until, todo,
                   quiet_until>>
    /\ UNCHANGED <<scrapeVars, notSlotVars>>

\* The sleep of the rate limit wait is over.
SWake(w) ==
    /\ LoopFree
    /\ spc[w] = "pause"
    /\ now >= swake[w]
    /\ spc' = [spc EXCEPT ![w] = "ready"]
    /\ swake' = [swake EXCEPT ![w] = 0]
    /\ UNCHANGED <<stats_lock, results_lock, rate_limit_until, todo,
                   quiet_until>>
    /\ UNCHANGED <<scrapeVars, notSlotVars>>

\* _process_job_in_slot starts: the fetch of the job (line 1429).
SFetch(w) ==
    /\ LoopFree
    /\ spc[w] = "ready"
    /\ spc' = [spc EXCEPT ![w] = "fetch"]
    /\ UNCHANGED <<stats_lock, results_lock, rate_limit_until, swake, todo,
                   quiet_until>>
    /\ UNCHANGED <<scrapeVars, notSlotVars>>

\* The fetch ends with outcome o.
SOutcome(w, o) ==
    /\ LoopFree
    /\ spc[w] = "fetch"
    /\ spc' = [spc EXCEPT ![w] = "handle"]
    /\ todo' = [todo EXCEPT ![w] = AfterFetch(o, wtask[w])]
    /\ UNCHANGED <<stats_lock, results_lock, rate_limit_until, swake,
                   quiet_until>>
    /\ UNCHANGED <<scrapeVars, notSlotVars>>

\* "async with <lock>:" takes the lock of the next block.
SLock(w) ==
    /\ spc[w] = "handle" /\ todo[w] # <<>>
    /\ Head(todo[w]).lock # "none"
    /\ LockOwner(Head(todo[w]).lock) = NoOwner
    /\ stats_lock' = IF Head(todo[w]).lock = "stats_lock" THEN w
                     ELSE stats_lock
    /\ results_lock' = IF Head(todo[w]).lock = "results_lock" THEN w
                       ELSE results_lock
    /\ UNCHANGED <<rate_limit_until, spc, swake, todo, quiet_until>>
    /\ UNCHANGED <<scrapeVars, notSlotVars>>

\* The next block runs; its lock, if it has one, is released at its end.
SBody(w) ==
    /\ spc[w] = "handle" /\ todo[w] # <<>>
    /\ LET b == Head(todo[w])
           t == wtask[w]
           Inc(op) == IF op \in b.ops THEN 1 ELSE 0
       IN
       /\ b.lock # "none" => LockOwner(b.lock) = w
       /\ total_success' = total_success + Inc("total_success")
       /\ total_expired' = total_expired + Inc("total_expired")
       /\ total_failed' = total_failed + Inc("total_failed")
       /\ total_retried' = total_retried + Inc("total_retried")
       /\ total_429_retries' = total_429_retries + Inc("total_429_retries")
       /\ total_processed' = total_processed + Inc("total_processed")
       /\ rate_limit_until' = IF "rate_limit_until" \in b.ops
                              THEN now + backoff(t) ELSE rate_limit_until
       /\ quiet_until' = IF "rate_limit_until" \in b.ops
                         THEN Max(quiet_until, now + backoff(t))
                         ELSE quiet_until
       /\ retry_count' = [retry_count EXCEPT ![t] = @ + Inc("requeue")]
       /\ job_queue' = IF "requeue" \in b.ops THEN Append(job_queue, t)
                       ELSE job_queue
       /\ unfinished' = unfinished + Inc("requeue") - Inc("task_done")
       /\ todo' = [todo EXCEPT ![w] =
                     IF "can_retry" \in b.ops
                     THEN (IF can_retry(t) THEN Retry429 ELSE Fail429)
                              \o Tail(@)
                     ELSE Tail(@)]
       /\ stats_lock' = IF b.lock = "stats_lock" THEN NoOwner ELSE stats_lock
       /\ results_lock' = IF b.lock = "results_lock" THEN NoOwner
                          ELSE results_lock
       /\ spc' = [spc EXCEPT ![w] = IF "next" \in b.ops THEN "get" ELSE @]
       /\ wtask' = [wtask EXCEPT ![w] = IF "next" \in b.ops THEN Pill ELSE @]
    /\ UNCHANGED <<wpc, consecutive_timeouts, cancel_req, mainVars, logVars,
                   swake>>
    /\ UNCHANGED notSlotVars

SlotWorker(w) ==
    \/ SGet(w)
    \/ SRateLimitWait(w)
    \/ SWake(w)
    \/ SFetch(w)
    \/ \E o \in SlotOutcomes : SOutcome(w, o)
    \/ SLock(w)
    \/ SBody(w)

\* Time passes while the workers wait or fetch.
SlotTick == LoopFree /\ Tick

SlotNext == SlotTick \/ \E w \in Slots : SlotWorker(w)

SlotSpec == Init /\ [][SlotNext]_vars

\* ======================================================================
\* AdaptiveLinkedInRateLimiter (scalable/adaptive_rate_limiter.py)
\* ======================================================================
\* asyncio.Semaphore: acquire takes a permit at once when there is one and
\* nobody waits, else the caller joins the waiters of that Semaphore
\* object; release hands the permit to the first waiter, or adds it to the
\* value.  Replacing self.semaphore leaves the callers that wait on the old
\* object where they are (lpc "sem_wait", no longer in waiters): no later
\* release reaches the old object.
notLimiterVars ==
    <<scrapeVars, breakerVars, clientVars, throttleVars, pageVars, qbVars,
      slotVars, set_rate_arg>>

\* The callers that have acquired the limiter and not yet released it.
Holders == {c \in Callers : lpc[c] \in {"jitter", "holding"}}

\* "self.circuit_open = False; self.consecutive_429s = 0; await
\* self.semaphore.acquire()" (lines 63-68) for caller c; reset says whether
\* the circuit breaker branch (line 58) is being left.
EnterSemaphore(c, reset) ==
    /\ circuit_open' = IF reset THEN FALSE ELSE circuit_open
    /\ consecutive_429s' = IF reset THEN 0 ELSE consecutive_429s
    /\ IF sem_value > 0 /\ waiters = <<>>
       THEN /\ sem_value' = sem_value - 1
            /\ lpc' = [lpc EXCEPT ![c] = "jitter"]
            /\ UNCHANGED waiters
       ELSE /\ waiters' = Append(waiters, c)
            /\ lpc' = [lpc EXCEPT ![c] = "sem_wait"]
            /\ UNCHANGED sem_value

\* acquire up to its first suspension (lines 58-68).
LimiterAcquire(c) ==
    /\ lpc[c] = "idle"
    /\ requests < MaxRequests
    /\ requests' = requests + 1
    /\ IF circuit_open /\ circuit_open_until - now > 0
       THEN /\ lpc' = [lpc EXCEPT ![c] = "circuit_wait"]
            /\ lwake' = [lwake EXCEPT ![c] = circuit_open_until]
            /\ UNCHANGED <<circuit_open, consecutive_429s, sem_value,
                           waiters>>
       ELSE /\ EnterSemaphore(c, circuit_open)
            /\ UNCHANGED lwake
    /\ UNCHANGED <<current_concurrent, circuit_open_until, recent_successes,
                   limiter_success_count, limiter_error_count, seq_jobs,
                   seq_idx, seq_stats>>
    /\ UNCHANGED <<paceVars, notLimiterVars>>

\* "await asyncio.sleep(wait_time)" is over (lines 62-68).
LimiterResume(c) ==
    /\ lpc[c] = "circuit_wait"
    /\ now >= lwake[c]
    /\ EnterSemaphore(c, TRUE)
    /\ UNCHANGED <<current_concurrent, circuit_open_until, recent_successes,
                   limiter_success_count, limiter_error_count, lwake,
                   requests, seq_jobs, seq_idx, seq_stats>>
    /\ UNCHANGED <<paceVars, notLimiterVars>>

\* The jitter sleep is over and acquire returns (lines 71-75).
LimiterJitter(c) ==
    /\ lpc[c] = "jitter"
    /\ lpc' = [lpc EXCEPT ![c] = "holding"]
    /\ UNCHANGED <<current_concurrent, sem_value, waiters, consecutive_429s,
                   circuit_open, circuit_open_until, recent_successes,
                   limiter_success_count, limiter_error_count, lwake,
                   requests, seq_jobs, seq_idx, seq_stats>>
    /\ UNCHANGED <<paceVars, notLimiterVars>>

\* recent_successes after append on a deque(maxlen=100).
Appended(success) ==
    IF Len(recent_successes) < recent_maxlen
    THEN Append(recent_successes, success)
    ELSE Append(Tail(recent_successes), success)

RECURSIVE Successes(_)
Successes(window) ==
    IF window = <<>> THEN 0
    ELSE (IF Head(window) THEN 1 ELSE 0) + Successes(Tail(window))

\* "len(self.recent_successes) >= 20 ... success_rate > 0.95 and
\* self.current_concurrent < self.max_concurrent" (lines 87-89).
Increases(window) ==
    /\ Len(window) >= tuning_window
    /\ Successes(window) * 100 > 95 * Len(window)
    /\ current_concurrent < initial_concurrent

\* Variant: the Semaphore object is kept and only the level changes.
Replaced_never(level) == FALSE

\* _reduce_concurrency and _increase_concurrency make a new Semaphore when
\* the level changes (lines 106-107, 114-115).
Replaced(level) == level # current_concurrent

\* release(success, error_code), called by holder c (lines 77-126).
release(c, success, error_code) ==
    LET window == Appended(success)
        tripped == ~success /\ error_code = 429 /\ consecutive_429s + 1 >= 3
        level ==
            IF success
            THEN IF Increases(window)
                 THEN Min(initial_concurrent, current_concurrent + 1)
                 ELSE current_concurrent
            ELSE IF error_code = 429
                 THEN IF tripped THEN min_concurrent
                      ELSE Max(min_concurrent, current_concurrent - 2)
                 ELSE current_concurrent
        new_semaphore == IF tripped THEN TRUE ELSE Replaced(level)
        woken == IF waiters # <<>> THEN {Head(waiters)} ELSE {}
    IN
    /\ lpc' = [x \in Callers |->
                 IF x = c THEN "idle"
                 ELSE IF x \in woken THEN "jitter" ELSE lpc[x]]
    /\ sem_value' = IF new_semaphore THEN level
                    ELSE IF waiters # <<>> THEN sem_value ELSE sem_value + 1
    /\ waiters' = IF new_semaphore \/ waiters = <<>> THEN <<>>
                  ELSE Tail(waiters)
    /\ recent_successes' = window
    /\ limiter_success_count' = limiter_success_count
                                + (IF success THEN 1 ELSE 0)
    /\ limiter_error_count' =
           limiter_error_count
           + (IF ~success /\ error_code = 429 THEN 1 ELSE 0)
    /\ consecutive_429s' =
           IF success THEN 0
           ELSE IF error_code = 429 THEN consecutive_429s + 1
           ELSE consecutive_429s
    /\ circuit_open' = (circuit_open \/ tripped)
    /\ circuit_open_until' = IF tripped THEN now + cooldown
                             ELSE circuit_open_until
    /\ current_concurrent' = level

\* A call of release by a caller that holds the limiter.
LimiterRelease(c, success, error_code) ==
    /\ lpc[c] = "holding"
    /\ release(c, success, error_code)
    /\ UNCHANGED <<lwake, requests, seq_jobs, seq_idx, seq_stats>>
    /\ UNCHANGED <<paceVars, notLimiterVars>>

LimiterNext ==
    \/ Tick
    \/ \E c \in Callers :
          \/ LimiterAcquire(c)
          \/ LimiterResume(c)
          \/ LimiterJitter(c)
          \/ \E success \in BOOLEAN, error_code \in ErrorCodes :
                LimiterRelease(c, success, error_code)

\* One limiter whose acquire and release are called by several coroutines
\* in any order, each release after an acquire of the same caller.
LimiterSpec == Init /\ [][LimiterNext]_vars

\* ======================================================================
\* scrape_job_details_sequential (linkedin/sequential_detail_scraper.py)
\* ======================================================================
\* The for loop over the URLs (lines 117-615): one coroutine, caller 0 of a
\* limiter of its own, which takes the jobs one after the other; the only
\* thing that happens while it sleeps is that time passes.
\*   "success"       the job was extracted and stored (line 581)
\*   "rate_limit"    an exception whose text holds "429" reached the
\*                    handler of line 598
\*   "error"         another exception reached it
\*   "fetch_failed"  retry_with_backoff gave up (lines 350-376)
\*   "expired"       retry_with_backoff reported a 404 or an expired job
SeqOutcomes == {"success", "rate_limit", "error", "fetch_failed", "expired"}

\* Variant: the handler of line 598 raises the exception again.
Escaping_reraised == {"rate_limit", "error"}

\* The outcomes whose exception leaves the "async with rate_limiter" block:
\* the handler "except Exception as e" ends in "continue" (lines 598-606).
Escaping == {}

\* __aexit__ (lines 148-164): the arguments it passes to release.
aexit(o) ==
    IF o \in Escaping
    THEN [success |-> FALSE,
          error_code |-> IF o = "rate_limit" THEN 429 ELSE NoCode]
    ELSE [success |-> TRUE, error_code |-> NoCode]

\* "async with rate_limiter:" (line 137): the whole of acquire, its sleeps
\* included.
SeqAcquire ==
    /\ seq_idx <= Len(seq_jobs)
    /\ lpc[0] = "idle"
    /\ sem_value > 0
    /\ now' = IF circuit_open THEN Max(now, circuit_open_until) ELSE now
    /\ circuit_open' = FALSE
    /\ consecutive_429s' = IF circuit_open THEN 0 ELSE consecutive_429s
    /\ sem_value' = sem_value - 1
    /\ lpc' = [lpc EXCEPT ![0] = "holding"]
    /\ requests' = requests + 1
    /\ UNCHANGED <<current_concurrent, waiters, circuit_open_until,
                   recent_successes, limiter_success_count,
                   limiter_error_count, lwake, seq_jobs, seq_idx, seq_stats>>
    /\ UNCHANGED <<pacerVars, bucketVars, callerVars, notLimiterVars>>

\* The body of the block for one job and the __aexit__ that follows it
\* (lines 138-612).
SeqFinish ==
    /\ lpc[0] = "holding"
    /\ LET o == seq_jobs[seq_idx]
       IN /\ release(0, aexit(o).success, aexit(o).error_code)
          /\ seq_stats' = [seq_stats EXCEPT
                 !.processed = @ + (IF o = "success" THEN 1 ELSE 0),
                 !.expired = @ + (IF o = "expired" THEN 1 ELSE 0),
                 !.failed = @ + (IF o = "fetch_failed" THEN 1 ELSE 0)]
    /\ seq_idx' = seq_idx + 1
    /\ UNCHANGED <<lwake, requests, seq_jobs>>
    /\ UNCHANGED <<paceVars, notLimiterVars>>

SeqNext == SeqAcquire \/ SeqFinish

\* The scraper is given any jobs, which end in any way.
SeqStart ==
    \E jobs \in UNION {[1..n -> SeqOutcomes] : n \in 1..MaxJobs} :
        /\ ScrapeInit
        /\ PaceInit
        /\ BreakerInit
        /\ ClientInit
        /\ ThrottleInit
        /\ PageInit
        /\ QueueInit
        /\ SlotInit
        /\ set_rate_arg = NoRate
        /\ LimiterInit(jobs)

SeqSpec == SeqStart /\ [][SeqNext]_vars

\* ======================================================================
\* Properties
\* ======================================================================

\* scrape returned after a shutdown that neither the watchdog nor a
\* cancellation cut short: every worker left through its poison pill or
\* through idle queue timeouts.
NormalShutdown ==
    /\ main_pc = "done"
    /\ ~deadlock_warning
    /\ \A w \in Slots : wpc[w] = "exited"

C6_OnlyTransientRequeued ==
    [][\A t \in Tasks :
          (InQueue(t)' /\ ~InQueue(t)) =>
              \E w \in Slots :
                  /\ wtask[w] = t
                  /\ \E o \in {"rate_limit", "server_error"} : Complete(w, o)]_vars

\* A retried task waits in the queue while another task has ended for good
\* without ever being put back.
C6_Witness ==
    \E t, u \in Tasks :
        /\ InQueue(t) /\ retry_count[t] >= 1
        /\ fate[u] = "finished" /\ retry_count[u] = 0 /\ ~InQueue(u)

\* C7: retry_count of a JobTask never decreases and never exceeds
\* max_retries, whatever mix of rate_limit and server_error results the
\* workers handle.
C7_RetryCountMonotoneBounded ==
    [][\A t \in Tasks :
          /\ retry_count'[t] >= retry_count[t]
          /\ retry_count'[t] <= max_retries]_vars

\* A task used up max_retries on a mix of 429 and 5xx answers and was then
\* marked failed.
C7_Witness ==
    \E t \in Tasks :
        /\ retry_count[t] = max_retries
        /\ fate[t] = "gave_up"
        /\ total_429_retries >= 1
        /\ total_retried > total_429_retries

\* C8: total_429_retries never exceeds max_total_429_retries, and once the
\* budget is used up a worker that handles a rate_limit result marks the
\* task failed and does not put it back.
C8_Global429Budget ==
    [][/\ total_429_retries' <= max_total_429_retries
       /\ \A w \in Slots :
             (/\ total_429_retries >= max_total_429_retries
              /\ Complete(w, "rate_limit"))
             => /\ job_queue' = job_queue
                /\ retry_count' = retry_count
                /\ total_failed' = total_failed + 1]_vars

\* The budget is used up and a task that still had retries of its own was
\* given up.
C8_Witness ==
    /\ total_429_retries = max_total_429_retries
    /\ \E t \in Tasks : fate[t] = "gave_up" /\ retry_count[t] < max_retries

\* C2: when scrape has returned after a normal shutdown, a task whose every
\* attempt was answered with rate_limit or server_error has been dispatched
\* at most max_retries + 1 times and has been counted exactly once in
\* total_failed.
C2_AlwaysTransientCountedFailed ==
    NormalShutdown =>
        \A t \in Tasks :
            (dispatched[t] >= 1 /\ fate[t] # "finished") =>
                /\ dispatched[t] <= max_retries + 1
                /\ fate[t] = "gave_up"
                /\ tally[t].failed = 1

\* The tasks that have been put back at least once.
Retried == {t \in Tasks : retry_count[t] >= 1}

\* C3: when scrape has returned after a normal shutdown of a run in which
\* k tasks were answered with rate_limit on their first attempt and every
\* other attempt was answered with success (k within both retry budgets),
\* total_success is the number of tasks, every task was persisted exactly
\* once and total_retried is at least k.
C3_RetryEndToEnd ==
    (/\ NormalShutdown
     /\ only_429_first
     /\ Cardinality(Retried) <= max_total_429_retries
     /\ max_retries >= 1)
    => /\ total_success = NumTasks
       /\ \A t \in Tasks : persisted[t] = 1
       /\ total_retried >= Cardinality(Retried)

\* C4: unless the watchdog forced the stop, the poison pills are in the
\* queue only once every task (re-queued retries included) has reached a
\* terminal outcome, and when scrape has returned after a normal shutdown
\* no task is left in the queue.
C4_PillsOnlyAfterDrain ==
    /\ (pills_sent > 0 /\ ~deadlock_warning) =>
           \A t \in Tasks : fate[t] # "pending"
    /\ NormalShutdown => \A t \in Tasks : ~InQueue(t)

\* C5: when scrape has returned after a normal shutdown, every task has
\* reached a terminal outcome that incremented exactly one of
\* total_success, total_expired, total_failed, and total_processed is the
\* number of completed attempts.
C5_EveryTaskAccounted ==
    NormalShutdown =>
        /\ \A t \in Tasks :
              /\ fate[t] # "pending"
              /\ tally[t].success + tally[t].expired + tally[t].failed = 1
        /\ total_processed = SumOver(dispatched, Tasks)

\* ---------------------------------------------------- termination of scrape
\* A measure of the work that is left.  A queued task weighs more than the
\* same task in flight, a retry lowers the weight of its task; a live worker
\* weighs its remaining idle timeouts; the scheduler weighs the checks the
\* watchdog still allows and its remaining phases.
TaskMeasure(t) ==
    IF InQueue(t) THEN 2 * (max_retries - retry_count[t]) + 2
    ELSE IF InFlight(t) THEN 2 * (max_retries - retry_count[t]) + 1
    ELSE 0

WorkerMeasure(w) ==
    IF wpc[w] \in {"get", "busy"}
    THEN MAX_CONSECUTIVE_TIMEOUTS - consecutive_timeouts[w] + 1
    ELSE 0

MainMeasure ==
    CASE main_pc = "wait" ->
             3 + num_slots + (max_no_progress - no_progress_count)
             + (max_no_progress + 1)
               * (NumTasks * (max_retries + 1) - last_processed)
      [] main_pc = "gather" -> 2 + num_slots
      [] main_pc = "cancelling" -> 1 + Cardinality(cancel_req)
      [] main_pc = "done" -> 0

\* The tasks are numbered 1..NumTasks and the slots 0..num_slots-1.
RECURSIVE TaskSum(_)
TaskSum(n) == IF n = 0 THEN 0 ELSE TaskMeasure(n) + TaskSum(n - 1)

RECURSIVE WorkerSum(_)
WorkerSum(n) == IF n = 0 THEN 0 ELSE WorkerMeasure(n - 1) + WorkerSum(n - 1)

Variant ==
    (MAX_CONSECUTIVE_TIMEOUTS + 1) * TaskSum(NumTasks)
    + WorkerSum(num_slots)
    + MainMeasure

CheckStep == main_pc = "wait" /\ unfinished > 0 /\ mainVars' # mainVars

\* C10: at every progress check, if total_processed has advanced since the
\* last check that saw an advance the no-progress counter becomes 0 and no
\* warning is emitted; otherwise the counter grows by one.  The
\* deadlock_warning is emitted exactly in the check in which the counter
\* reaches max_no_progress, and in that same step scrape leaves the wait
\* loop and sends the pills; the counter never reaches max_no_progress
\* without the warning, and scrape never waits on after it.
C10_WatchdogForcesStop ==
    /\ [][CheckStep =>
            /\ (total_processed > last_processed)
               => /\ no_progress_count' = 0
                  /\ last_processed' = total_processed
                  /\ deadlock_warning' = deadlock_warning
            /\ ~(total_processed > last_processed)
               => /\ no_progress_count' = no_progress_count + 1
                  /\ last_processed' = last_processed
            /\ (deadlock_warning' /\ ~deadlock_warning)
               <=> (no_progress_count' >= max_no_progress)
            /\ (deadlock_warning' /\ ~deadlock_warning)
               => (main_pc' = "gather" /\ pills_sent' = num_slots)]_vars
    /\ [][~CheckStep => UNCHANGED <<no_progress_count, last_processed,
                                    deadlock_warning>>]_vars
    /\ [](deadlock_warning <=> no_progress_count >= max_no_progress)
    /\ [](deadlock_warning => main_pc # "wait")

\* The watchdog saw an advance, then max_no_progress checks in a row without
\* one, and forced the stop while a task was still unfinished.
C10_Witness ==
    /\ deadlock_warning
    /\ last_processed >= 1
    /\ no_progress_count = max_no_progress
    /\ pills_sent = num_slots
    /\ \E t \in Tasks : fate[t] = "pending"

\* C11: an attempt that the hard per-task timeout cuts short ends as a
\* timeout or error (counted in total_failed, nothing deleted, nothing
\* counted as expired), total_processed advances by one, and the worker is
\* back at job_queue.get().
C11_HardTimeoutIsError ==
    [][\A w \in Slots :
          (\E o \in HardTimeoutOutcomes : Complete(w, o))
          => /\ total_processed' = total_processed + 1
             /\ wpc'[w] = "get"
             /\ total_failed' = total_failed + 1
             /\ total_expired' = total_expired
             /\ deleted' = deleted]_vars

\* C12: an attempt that ends in a fetch timeout (page.goto does not answer
\* in time, or the hard timeout fires in a pacing wait) never deletes the
\* URL; the task is put back while both retry budgets remain and is
\* counted in total_failed once one of them is used up.
C12_FetchTimeoutIsTransient ==
    [][\A w \in Slots : \A t \in Tasks :
          (wtask[w] = t /\ \E o \in {"nav_timeout", "timeout"} : Complete(w, o))
          => /\ deleted'[t] = deleted[t]
             /\ can_retry(t) => (InQueue(t)' /\ retry_count'[t] = retry_count[t] + 1)
             /\ ~can_retry(t) => total_failed' = total_failed + 1]_vars

\* C13: whatever makes an attempt end as expired (HTTP 404, an expired-job
\* phrase in the page, a redirect away from the job page), delete_urls is
\* called for the URL and total_expired grows by one.
C13_ExpiredIsDeletedAndCounted ==
    [][\A w \in Slots : \A t \in Tasks :
          (wtask[w] = t
           /\ \E o \in {"http_404", "expired", "redirect"} : Complete(w, o))
          => /\ deleted'[t] = deleted[t] + 1
             /\ total_expired' = total_expired + 1]_vars

\* C14: an attempt that ends in an authwall or in a non-English
\* description calls neither store_details nor delete_urls.
C14_AuthwallLeavesBacklog ==
    [][\A w \in Slots :
          (\E o \in {"authwall", "non_english"} : Complete(w, o))
          => /\ persisted' = persisted
             /\ deleted' = deleted]_vars

\* ---------------------------------------------------------------- C15
\* C15: no two dispatches, the moments at which workers leave
\* _acquire_job_start_slot, are closer together than
\* min_interval_between_jobs.
C15_DispatchesSpaced ==
    [][\A w \in Slots :
          (ppc[w] \in {"idle", "pacer_sleep"} /\ ppc'[w] = "paced" /\ leaves > 0)
              => now - last_leave >= min_interval_between_jobs]_vars

InitialBurst == Min(initial_tokens, capacity) \div TokenUnit

\* C17 as stated: on a bucket on which only acquire is called, each of the
\* first C acquire calls (C = capacity in tokens) returns True on its first
\* pass, without a sleep.
C17_CapacityBurst ==
    [][\A w \in Slots :
          (only_acquires /\ granted < capacity \div TokenUnit /\ AcquirePoll(w))
              => (ppc'[w] = "ready" /\ acquired'[w])]_vars

\* C17 as the code has it: a new bucket holds min(initial_tokens, capacity)
\* tokens.  Each of that many first acquire calls returns True on its
\* first pass; no further acquire returns True before the refill has
\* produced its token, 1/R after the burst for the first one; and a
\* waiting caller gets True on the first pass that finds a whole token.
C17_InitialBurstThenWait ==
    /\ [][\A w \in Slots :
            (only_acquires /\ granted < InitialBurst /\ AcquirePoll(w))
                => (ppc'[w] = "ready" /\ acquired'[w])]_vars
    /\ [](only_acquires =>
            granted * TokenUnit
                <= InitialBurst * TokenUnit + (now - Created) * tokens_per_second)
    /\ [][\A w \in Slots :
            (AcquirePoll(w) /\ Refilled >= TokenUnit)
                => (ppc'[w] = "ready" /\ acquired'[w])]_vars

\* The acquire after the burst has returned True, after its wait.
C17_Witness ==
    /\ only_acquires
    /\ granted = InitialBurst + 1
    /\ now - Created >= 1
    /\ \E w \in Slots : ppc[w] = "ready" /\ acquired[w]

\* ---------------------------------------------------------------- C18
\* C18: tokens stays within 0..capacity whatever acquire, penalize, boost,
\* set_rate and the lazy refill do, in any order; an acquire that returns
\* True leaves one token less than its refill found, and an acquire that
\* returns False takes nothing out of the bucket.
C18_TokensWithinBounds ==
    /\ [](0 <= tokens /\ tokens <= capacity)
    /\ [][\A w \in Slots :
            (ppc[w] = "acquire" /\ ppc'[w] = "ready" /\ acquired'[w])
                => tokens' = Refilled - TokenUnit]_vars
    /\ [][\A w \in Slots :
            (ppc[w] \in {"acquire", "bucket_sleep"} /\ ppc'[w] = "ready"
                 /\ ~acquired'[w])
                => tokens' >= tokens]_vars

\* A bucket that penalize has emptied, on which an acquire has timed out.
C18_Witness ==
    /\ ~only_acquires
    /\ tokens = 0
    /\ \E w \in Slots : ppc[w] = "ready" /\ ~acquired[w]

\* ---------------------------------------------------------------- C19
\* Worker w is in the sleep of acquire or in the sleep of the pacer.
Sleeping(w) == ppc[w] \in {"pacer_sleep", "bucket_sleep"}

\* C19: a sleeping worker holds neither the TokenBucket lock nor the pacer
\* lock, and while it sleeps every other worker can take its next step on
\* the bucket or the pacer at once: a pacer reservation, set_rate, a pass
\* of acquire, boost or penalize.
C19_NoLockHeldWhileSleeping ==
    /\ \A w \in Slots : Sleeping(w) => (bucket_lock # w /\ job_start_lock # w)
    /\ \A w \in Slots : \A v \in Slots \ {w} :
          Sleeping(w) =>
              /\ ppc[v] = "idle" => ENABLED StartJob(v)
              /\ ppc[v] = "paced" =>
                     \A rate \in Rates : ENABLED EnforceDispatchDelay(v, rate)
              /\ ppc[v] = "acquire" => ENABLED AcquirePoll(v)
              /\ ppc[v] = "fetching" =>
                     /\ \A b \in BoostAmounts : ENABLED FinishSuccess(v, b)
                     /\ \A p \in PenaltySeconds : ENABLED FinishRateLimited(v, p)

\* One worker is in the sleep of acquire, its sleep not yet over, or in the
\* sleep of the pacer, and another is about to enter the same lock.
C19_Witness ==
    \E w \in Slots : \E v \in Slots \ {w} :
        /\ now < wake[w]
        /\ \/ ppc[w] = "bucket_sleep" /\ ppc[v] = "acquire"
           \/ ppc[w] = "pacer_sleep" /\ ppc[v] = "idle"

\* ---------------------------------------------------------------- C20
\* C20: from CLOSED with failure_count 0, failure_threshold consecutive
\* record_failure calls (or more) leave the breaker OPEN, and fewer leave
\* it CLOSED.
C20_OpensAtThreshold ==
    failure_run >= 0 =>
        IF failure_run >= failure_threshold
        THEN state = "open"
        ELSE state = "closed" /\ failure_count = failure_run

\* The call that completes a run of failure_threshold failures has been
\* made.
C20_Witness ==
    failure_run = failure_threshold /\ state = "open"

\* ---------------------------------------------------------------- C21
\* C21: whenever the breaker goes from CLOSED to OPEN, the last
\* failure_threshold recorded outcomes, the one that opens it included,
\* are all failures.
C21_OpensOnlyAfterFailureRun ==
    [][(state = "closed" /\ state' = "open")
          => /\ Len(recent') = failure_threshold
             /\ \A i \in 1..Len(recent') : recent'[i] = "failure"]_vars

\* ---------------------------------------------------------------- C22
\* C22: check_state on an OPEN breaker raises CircuitOpenError and changes
\* nothing as long as now - last_failure_time <= recovery_timeout; once
\* more than recovery_timeout has passed it moves the breaker to HALF_OPEN,
\* sets success_count to 0 and does not raise.
C22_OpenUntilRecoveryTimeout ==
    [][(CheckState /\ state = "open")
          => IF now - last_failure_time <= recovery_timeout
             THEN /\ raised'
                  /\ UNCHANGED <<state, failure_count, success_count,
                                 last_failure_time>>
             ELSE /\ ~raised'
                  /\ state' = "half_open"
                  /\ success_count' = 0
                  /\ UNCHANGED <<failure_count, last_failure_time>>]_vars

\* More than recovery_timeout after the last failure a check_state call
\* has moved the breaker to HALF_OPEN without raising, the probe counter
\* at 0.
C22_Witness ==
    /\ state = "half_open"
    /\ success_count = 0
    /\ ~raised
    /\ now - last_failure_time > recovery_timeout

\* ---------------------------------------------------------------- C23
\* C23: in HALF_OPEN the record_success call that is the
\* success_threshold-th since the breaker became HALF_OPEN closes it and
\* sets failure_count to 0; every earlier one leaves it HALF_OPEN with
\* failure_count as it was.
C23_ClosesAtSuccessThreshold ==
    /\ [](state = "half_open" =>
            (probes < success_threshold /\ success_count = probes))
    /\ [][(RecordSuccess /\ state = "half_open")
            => IF probes' = success_threshold
               THEN state' = "closed" /\ failure_count' = 0
               ELSE state' = "half_open" /\ failure_count' = failure_count]_vars

\* The success_threshold-th success of a probe has closed the breaker.
C23_Witness ==
    /\ state = "closed"
    /\ probes = success_threshold
    /\ failure_count = 0
    /\ recent # <<>> /\ recent[Len(recent)] = "success"

\* ---------------------------------------------------------------- C24
\* C24: a record_failure call on a HALF_OPEN breaker leaves it OPEN,
\* whatever failure_count and the probe counter are: failure_count is
\* never below failure_threshold while the breaker is HALF_OPEN.
C24_HalfOpenFailureReopens ==
    /\ [](state = "half_open" => failure_count >= failure_threshold)
    /\ [][(RecordFailure /\ state = "half_open")
            => (state' = "open" /\ last_failure_time' = now)]_vars

\* A failure has sent the breaker back to OPEN in the middle of a probe:
\* some probe successes were recorded, fewer than success_threshold.
C24_Witness ==
    /\ state = "open"
    /\ probes >= 1 /\ probes < success_threshold
    /\ recent[Len(recent)] = "failure"

\* ---------------------------------------------------------------- C25
\* C25: every HTTP attempt of make_request_with_retry, a first attempt or
\* a retry, is issued after a check_state call of its own and not while
\* the breaker is OPEN, and the end of every attempt records exactly one
\* outcome, a success or a failure.
C25_CheckBeforeEveryAttempt ==
    [][\A c \in Coroutines :
          /\ (cpc[c] # "request" /\ cpc'[c] = "request")
                => (checked'[c] /\ state' # "open")
          /\ (cpc[c] = "request" /\ cpc'[c] # "request")
                => recent' \in {Recorded("success"), Recorded("failure")}]_vars


\* C26: in every reachable state of the scraper, from construction onward
\* and after any sequence of success and rate-limit outcomes, current_delay
\* is at least min_delay, for every num_slots in 1..10 and every base delay.
C26_DelayAtLeastMin == current_delay >= min_delay

\* C27: a success outcome never increases current_delay; the success that
\* completes a run of delay_success_threshold consecutive successes lowers
\* it by delay_reduction_step, clamped at min_delay (so strictly, when it
\* was above min_delay); a success that does not complete such a run
\* leaves it alone, any outcome that is not a success restarting the run.
C27_ReducesAfterConsecutiveSuccesses ==
    [][ThrottleSuccess =>
         /\ current_delay' <= current_delay
         /\ IF streak + 1 = delay_success_threshold
            THEN /\ current_delay' =
                        Max(min_delay, current_delay - delay_reduction_step)
                 /\ current_delay > min_delay =>
                        current_delay' < current_delay
            ELSE current_delay' = current_delay]_vars

\* C28: every rate-limit outcome resets current_delay to the scaled base
\* delay base_delay * (1 + 0.1 * (num_slots - 1)), its construction value.
C28_RateLimitResetsToScaledDelay ==
    [][ThrottleRateLimited =>
         current_delay' =
             effective_delay(delay_between_jobs, self_num_slots)]_vars


\* C29: once goto has returned a response, status 429 gives rate_limit,
\* 404 gives expired and 5xx gives server_error, whatever the task URL,
\* the final URL, the title and the body are: the redirect and content
\* rules decide only when no status rule matches.
C29_StatusRulesFirst ==
    (jpc # "start" /\ Responded(page)) =>
        /\ page.status = 429 => result = "rate_limit"
        /\ page.status = 404 => result = "expired"
        /\ (page.status >= 500) => result = "server_error"

\* The description and the company were queried and both were found.
ContentExtracted ==
    tried /\ page.job_description # "" /\ page.company_name

\* The final URL or the body carries the login signals of is_authwall.
LoginSignals ==
    \/ ContainsAny(page.current_url, {"authwall", "login", "signin"})
    \/ {"sign in", "join now"} \subseteq page.page_text

\* C30: authwall is returned only when the description and the company
\* were not both extracted; once they are extracted (no earlier rule having
\* fired) the page passes as a success to the validator and the store,
\* login signals or not, and (True, None) is returned when these accept it.
C30_DataOverridesLoginSignals ==
    /\ result = "authwall" => ~ContentExtracted
    /\ ContentExtracted =>
          /\ jpc = "extracted" \/ decided_by = "store"
          /\ (jpc = "done" /\ page.verdict = "stored") => result = "success"

C30_Witness ==
    /\ ContentExtracted
    /\ LoginSignals
    /\ ~ContainsAny(page.page_text, {"experience"})
    /\ result = "success"


\* ---------------------------------------------------------------- C31
\* C31: a task whose id was already stored, or already seen by this
\* scheduler, when it was submitted is never fetched and never persisted
\* again.
C31_ExistingTaskIsNoOp ==
    \A id \in Ids :
        id \in existed => (qb_fetches[id] = 0 /\ qb_persists[id] = 0)

\* C32: every mutation of the shared scheduler counters (total_processed,
\* total_success, total_expired, total_failed, total_retried,
\* total_429_retries) happens while the mutating worker holds stats_lock.
C32_CountersUnderStatsLock ==
    [][statVars' # statVars
          => \E w \in Slots : spc[w] = "handle" /\ stats_lock = w]_vars

\* C33: after a rate limited outcome with backoff b = min(
\* rate_limit_backoff_base * 2^retry_count, 300), no worker starts a fetch
\* until b has passed since that outcome, and a later rate limited outcome
\* never shortens a pause that is in force.
C33_PauseHonoured ==
    [][/\ \A w \in Slots :
             spc[w] = "ready" /\ spc'[w] = "fetch" => now >= quiet_until
       /\ rate_limit_until > now => rate_limit_until' >= rate_limit_until]_vars

\* The two halves of C33.
C33_NoFetchDuringPause ==
    [][\A w \in Slots :
          spc[w] = "ready" /\ spc'[w] = "fetch" => now >= quiet_until]_vars

C33_PauseNeverShortened ==
    [][rate_limit_until > now => rate_limit_until' >= rate_limit_until]_vars

\* A worker that finds the pause in force sleeps to its end.
C33_SleepsToEndOfPause ==
    \A w \in Slots : spc[w] = "pause" => swake[w] >= rate_limit_until

\* C34: for every item a worker dequeues, task or poison pill, task_done is
\* called exactly once on every exit path (success, failure, hard timeout,
\* cancellation): the unfinished count of the queue is never negative, it
\* counts the items still queued and the tasks still held by a worker, and
\* it is zero once every item is handled.
C34_TaskDoneExactlyOnce ==
    /\ unfinished >= 0
    /\ unfinished = Len(job_queue)
                    + Cardinality({w \in Slots : wpc[w] = "busy"})

\* scrape has returned; a worker was cancelled while it held a task (the
\* task was dequeued and never counted), another left through its pill,
\* a task was retried, and no worker holds a task any more.
C34_Witness ==
    /\ main_pc = "done"
    /\ \E w \in Slots : wpc[w] = "cancelled"
    /\ \E w \in Slots : wpc[w] = "exited"
    /\ \A w \in Slots : wpc[w] # "busy"
    /\ SumOver(dispatched, Tasks) > total_processed
    /\ total_retried >= 1

\* C35: a task that is put back for a retry is put before the task_done of
\* the failed attempt, so the unfinished count is not zero, and
\* job_queue.join() cannot complete, while a retry waits in the queue or
\* is held by a worker.
C35_RetryKeepsJoinOpen ==
    \A t \in Tasks :
        (retry_count[t] >= 1 /\ (InQueue(t) \/ \E w \in Slots : wtask[w] = t))
            => unfinished > 0

\* The failed attempt is over (its task_done is done, every worker is back
\* at job_queue.get()) and the retry is the one item that keeps join open.
C35_Witness ==
    /\ \A w \in Slots : spc[w] = "get"
    /\ unfinished = 1
    /\ \E t \in Tasks : retry_count[t] >= 1 /\ InQueue(t)

\* C36: while consecutive_429_count > 0, the refill rate that
\* _enforce_dispatch_delay sets is never higher than the normal rate
\* num_slots / current_delay, and it does not increase as
\* consecutive_429_count grows, for every num_slots in 1..10 and every
\* current_delay.
C36_PenaltyRateNotAboveNormal ==
    [][(ThrottleDispatch /\ consecutive_429_count > 0)
          => /\ set_rate_arg' <= normal_rate
             /\ \A fewer \in 1..consecutive_429_count :
                   set_rate_arg' <= penalty_rate(fewer)]_vars

\* The second half of C36: more 429s in a row never give a higher rate.
C36_PenaltyRateNotIncreasing ==
    [][(ThrottleDispatch /\ consecutive_429_count > 0)
          => \A fewer \in 1..consecutive_429_count :
                set_rate_arg' <= penalty_rate(fewer)]_vars

\* The first half of C36 where the normal rate is at least the floor of 0.5
\* token per second.
C36_NotAboveNormalOverFloor ==
    [][(/\ ThrottleDispatch
        /\ consecutive_429_count > 0
        /\ normal_rate >= RateUnit \div 2)
          => set_rate_arg' <= normal_rate]_vars

\* C37: whenever the CircuitBreaker is OPEN or HALF_OPEN, failure_count is
\* at least failure_threshold; record_success while OPEN changes nothing;
\* and the only transition out of OPEN is check_state moving it to
\* HALF_OPEN.
C37_OpenKeepsFailureCount ==
    [][/\ state' \in {"open", "half_open"}
             => failure_count' >= failure_threshold
       /\ (state = "open" /\ RecordSuccess)
             => UNCHANGED <<state, failure_count, success_count,
                            last_failure_time>>
       /\ (state = "open" /\ state' # "open")
             => state' = "half_open" /\ CheckState]_vars

\* record_success was just called on an OPEN breaker that has seen more
\* failures than the threshold.
C37_Witness ==
    /\ state = "open"
    /\ failure_count > failure_threshold
    /\ recent # <<>> /\ recent[Len(recent)] = "success"

\* C38: the number of callers that have acquired the limiter and not yet
\* released it never exceeds max_concurrent, the initial concurrency, for
\* any interleaving of acquire and release calls, the releases that change
\* the concurrency level or trip the circuit breaker included.
C38_HoldersAtMostMaxConcurrent ==
    Cardinality({c \in Callers : lpc[c] = "holding"}) <= initial_concurrent

\* C39: in scrape_job_details_sequential a job that fails with a 429 is
\* reported to the rate limiter as release(success=False, error_code=429):
\* consecutive_429s grows, the concurrency is reduced, and the third such
\* job in a row opens the circuit of the limiter.
C39_RateLimitReported ==
    [][(SeqFinish /\ seq_jobs[seq_idx] = "rate_limit")
          => /\ consecutive_429s' = consecutive_429s + 1
             /\ limiter_error_count' = limiter_error_count + 1
             /\ IF consecutive_429s' >= 3
                THEN circuit_open' /\ current_concurrent' = min_concurrent
                ELSE current_concurrent' =
                         Max(min_concurrent, current_concurrent - 2)]_vars

\* C40: QueueBasedScraper.scrape terminates for every pattern of
\* responses: a rate limited task is put back only a bounded number of
\* times, job_queue.join() returns, every worker reads its poison pill and
\* exits, and scrape returns.
C40_ScrapeTerminates == <>(qb_pc = "done")

\* The rest of C40: between two loop iterations a worker has counted every
\* task it has taken, processed = success + failed + expired +
\* rate_limited (as far as the counters are followed), and a worker
\* leaves only through a pill that scrape put after join had returned.
C40_WorkerAccounting ==
    \A w \in Workers :
        /\ (wk_pc[w] \in {"get", "exit"}
              /\ worker_stats[w].processed < MaxCount)
              => worker_stats[w].processed =
                     worker_stats[w].success + worker_stats[w].failed
                     + worker_stats[w].expired + worker_stats[w].rate_limited
        /\ wk_pc[w] = "exit" => qb_pc \in {"gather", "done"}

====
